---- MODULE Spec2Model ----
(***************************************************************************)
(* Model of the cuDF heterogeneous-execution layer of Velox:               *)
(*   - the function registry and the expression-evaluator registry         *)
(*     (expression/ExpressionEvaluator.cpp),                               *)
(*   - the logical feasibility check canBeEvaluatedByCudf and the          *)
(*     strategy selection of createCudfExpression,                         *)
(*   - CompileState::compile, the rewrite of a driver's operator list      *)
(*     (exec/ToCudf.cpp, kept here as src/unnamed/part_001).               *)
(***************************************************************************)
EXTENDS Integers, Sequences, FiniteSets, TLC

VARIABLES
  functionRegistry,    \* getCudfFunctionRegistry(): name -> factory
  functionCalls,       \* log of the registerCudfFunction calls made so far
  evaluatorRegistry,   \* getCudfExpressionEvaluatorRegistry(): name -> entry
  registered,          \* the static flag of ensureBuiltinExpressionEvaluatorsRegistered
  call,                \* the latest call on the evaluator side, with its result
  expr,                \* the expression handed to the expression compiler
  driver,              \* exec::Driver: its operators, and DriverFactory::outputDriver
  compileState,        \* CompileState::compile: its arguments, locals and outcome
  isCudfRegistered,    \* static bool isCudfRegistered
  mr_,                 \* the global device memory resource, or "nullptr"
  adapters,            \* exec::DriverFactory::adapters
  translators,         \* number of translators given to exec::Operator::registerOperator
  builder,             \* a dwrf StatisticsBuilder: its kind and its running statistics
  vectors,             \* the vectors handed to StatisticsBuilderUtils::addValues so far
  threads              \* the threads inside a registration gate: their positions

vars == <<functionRegistry, functionCalls, evaluatorRegistry, registered, call, expr,
          driver, compileState, isCudfRegistered, mr_, adapters, translators,
          builder, vectors, threads>>

(***************************************************************************)
(* Bounds of the model.                                                    *)
(***************************************************************************)
\* Number of registerCudfFunction calls made in one behaviour.
MaxCalls == 3

\* Number of nodes of a logical (core::ITypedExpr) expression tree.
MaxTypedNodes == 4

\* Number of nodes of a compiled (velox::exec::Expr) expression tree.
MaxExprNodes == 3

\* Number of operators of a driver's pipeline before compile.
MaxOperators == 3

(***************************************************************************)
(* Small helpers.                                                          *)
(***************************************************************************)
SetMax(S) == CHOOSE x \in S : \A y \in S : y <= x

SetMin(S) == CHOOSE x \in S : \A y \in S : x <= y

\* std::unordered_map: m[k] = v (insert or assign).
MapPut(m, k, v) == [x \in (DOMAIN m) \cup {k} |-> IF x = k THEN v ELSE m[x]]

EmptyMap == [x \in {} |-> TRUE]

NoCall == [op |-> "none"]

NoExpr == [type |-> "none"]

NoDriver == [operators |-> <<>>, outputDriver |-> FALSE]

NoCompile == [pc |-> "none"]

\* No statistics builder has been made and no thread is inside a
\* registration gate.
NoBuilderNoThreads ==
  /\ builder = [kind |-> "none"]
  /\ vectors = <<>>
  /\ threads = <<>>

\* Before any registerCudf: the flag is false, no memory resource is held,
\* and neither an adapter nor a translator is registered.
NothingRegistered ==
  /\ isCudfRegistered = FALSE
  /\ mr_ = "nullptr"
  /\ adapters = <<>>
  /\ translators = 0

(***************************************************************************)
(* The function registry (Capability Registry).                            *)
(***************************************************************************)
\* Names under which functions are registered in the model.
FunctionNames == {"substr", "substring", "year"}

\* Identities of the factories handed to registerCudfFunction.
Factories == {"factoryA", "factoryB"}

\* A wrong registerCudfFunction: the overwrite flag is ignored and the
\* stored factory is always replaced.
registerCudfFunctionAlwaysOverwrites(registry, name, factory, overwrite) ==
  [ret |-> TRUE, registry |-> MapPut(registry, name, factory)]

\* registerCudfFunction(name, factory, overwrite): the returned flag and the
\* registry after the call.
registerCudfFunction(registry, name, factory, overwrite) ==
  IF ~overwrite /\ name \in DOMAIN registry
    THEN [ret |-> FALSE, registry |-> registry]
    ELSE [ret |-> TRUE, registry |-> MapPut(registry, name, factory)]

\* The log entry of one registerCudfFunction call.
FunctionCall(before, name, factory, overwrite) ==
  LET r == registerCudfFunction(before, name, factory, overwrite)
  IN  [name |-> name, factory |-> factory, overwrite |-> overwrite,
       ret |-> r.ret, before |-> before, after |-> r.registry]

\* registerCudfFunctions(aliases, factory, overwrite): one
\* registerCudfFunction call per alias, in order; the log entries it adds
\* when started on `registry`.
RECURSIVE registerCudfFunctions(_, _, _, _)
registerCudfFunctions(registry, aliases, factory, overwrite) ==
  IF aliases = <<>>
    THEN <<>>
    ELSE LET c == FunctionCall(registry, Head(aliases), factory, overwrite)
         IN  <<c>> \o registerCudfFunctions(c.after, Tail(aliases), factory, overwrite)

\* A wrong createCudfFunction: the registry is not looked up.
createCudfFunctionWithoutLookup(registry, name) == "nullptr"

\* createCudfFunction(name, expr): the factory that is invoked, or "nullptr".
createCudfFunction(registry, name) ==
  IF name \in DOMAIN registry THEN registry[name] ELSE "nullptr"

CallRegisterCudfFunction ==
  /\ Len(functionCalls) < MaxCalls
  /\ \E name \in FunctionNames, factory \in Factories, overwrite \in BOOLEAN :
       LET c == FunctionCall(functionRegistry, name, factory, overwrite)
       IN  /\ functionRegistry' = c.after
           /\ functionCalls' = Append(functionCalls, c)
  /\ UNCHANGED <<evaluatorRegistry, registered, call, expr, driver, compileState,
                 isCudfRegistered, mr_, adapters, translators,
                 builder, vectors, threads>>

CallRegisterCudfFunctions ==
  /\ \E a1 \in FunctionNames, a2 \in FunctionNames, factory \in Factories,
        overwrite \in BOOLEAN :
       LET cs == registerCudfFunctions(functionRegistry, <<a1, a2>>, factory, overwrite)
       IN  /\ Len(functionCalls) + Len(cs) <= MaxCalls
           /\ functionRegistry' = cs[Len(cs)].after
           /\ functionCalls' = functionCalls \o cs
  /\ UNCHANGED <<evaluatorRegistry, registered, call, expr, driver, compileState,
                 isCudfRegistered, mr_, adapters, translators,
                 builder, vectors, threads>>

InitFunctionRegistry ==
  /\ functionRegistry = EmptyMap
  /\ functionCalls = <<>>
  /\ evaluatorRegistry = EmptyMap
  /\ registered = FALSE
  /\ call = NoCall
  /\ expr = NoExpr
  /\ driver = NoDriver
  /\ compileState = NoCompile
  /\ NothingRegistered
  /\ NoBuilderNoThreads

NextFunctionRegistry ==
  \/ CallRegisterCudfFunction
  \/ CallRegisterCudfFunctions

SpecFunctionRegistry == InitFunctionRegistry /\ [][NextFunctionRegistry]_vars

(***************************************************************************)
(* C1: registerCudfFunction returns false and leaves the registry          *)
(* unchanged exactly when the name is already registered and overwrite is  *)
(* false; otherwise it returns true and the name maps to the given         *)
(* factory (every other name keeps its factory).  Hence the active factory *)
(* of a name is the one of its first registration, or of the latest        *)
(* registration made with overwrite = true.                                *)
(***************************************************************************)
CallsOf(name) == {i \in 1..Len(functionCalls) : functionCalls[i].name = name}

OverwritingCallsOf(name) == {i \in CallsOf(name) : functionCalls[i].overwrite}

ActiveFactory(name) ==
  IF OverwritingCallsOf(name) # {}
    THEN functionCalls[SetMax(OverwritingCallsOf(name))].factory
    ELSE functionCalls[SetMin(CallsOf(name))].factory

C1_RegisterFunctionFirstWinsOrOverwrite ==
  /\ \A i \in 1..Len(functionCalls) :
       LET c == functionCalls[i]
       IN  /\ c.ret = FALSE <=> (c.name \in DOMAIN c.before /\ ~c.overwrite)
           /\ c.ret = FALSE => c.after = c.before
           /\ c.ret = TRUE =>
                /\ DOMAIN c.after = (DOMAIN c.before) \cup {c.name}
                /\ c.after[c.name] = c.factory
                /\ \A n \in (DOMAIN c.before) \ {c.name} : c.after[n] = c.before[n]
           /\ c.before = IF i = 1 THEN EmptyMap ELSE functionCalls[i - 1].after
  /\ functionCalls # <<>> => functionRegistry = functionCalls[Len(functionCalls)].after
  /\ DOMAIN functionRegistry = {n \in FunctionNames : CallsOf(n) # {}}
  /\ \A n \in DOMAIN functionRegistry : functionRegistry[n] = ActiveFactory(n)

\* A name registered three times: first-wins, then an overwrite, then a
\* refused registration of another factory.
C1_Witness ==
  /\ Len(functionCalls) = 3
  /\ functionCalls[1].name = "year" /\ functionCalls[2].name = "year"
  /\ functionCalls[3].name = "year"
  /\ functionCalls[1].factory = "factoryA" /\ ~functionCalls[1].overwrite
  /\ functionCalls[2].factory = "factoryB" /\ functionCalls[2].overwrite
  /\ functionCalls[3].factory = "factoryA" /\ ~functionCalls[3].overwrite
  /\ functionCalls[3].ret = FALSE
  /\ functionRegistry["year"] = "factoryB"

(***************************************************************************)
(* Expression trees.  A tree is a record [label, parent]: node 1 is the    *)
(* root, parent[1] = 0 and parent[i] < i; the inputs of a node are its     *)
(* children in increasing index order.  A label is [kind, name].           *)
(* core::ITypedExpr kinds are the ExprKind names; velox::exec::Expr nodes   *)
(* are FieldReference, ConstantExpr (whose name is "literal") or another   *)
(* Expr, looked up by name.                                                *)
(***************************************************************************)
Nodes(t) == 1..Len(t.label)

\* expr->inputs() of node i, in order.
RECURSIVE InputsFrom(_, _, _)
InputsFrom(t, i, j) ==
  IF j > Len(t.label)
    THEN <<>>
    ELSE (IF t.parent[j] = i THEN <<j>> ELSE <<>>) \o InputsFrom(t, i, j + 1)

Inputs(t, i) == InputsFrom(t, i, i + 1)

\* The proper descendants of node i.
RECURSIVE Descendants(_, _)
Descendants(t, i) ==
  LET kids == {j \in Nodes(t) : t.parent[j] = i}
  IN  kids \cup UNION {Descendants(t, j) : j \in kids}

\* All trees of exactly n nodes over the labels L.
ParentVectors(n) ==
  {p \in [1..n -> 0..n] : p[1] = 0 /\ \A i \in 2..n : p[i] >= 1 /\ p[i] < i}

TreesOfSize(L, n) ==
  {[label |-> l, parent |-> p] : l \in [1..n -> L], p \in ParentVectors(n)}

TreesUpTo(L, n) == UNION {TreesOfSize(L, k) : k \in 1..n}

(***************************************************************************)
(* The expression-evaluator registry (Evaluator Strategy Registry).        *)
(***************************************************************************)
\* Default priority for function evaluator.
kFunctionPriority == 50

\* FunctionExpression::canEvaluate(std::shared_ptr<velox::exec::Expr>).
FunctionExpression_canEvaluateCompiled(fnRegistry, label) ==
  \/ label.kind = "FieldReference"
  \/ label.name \in DOMAIN fnRegistry

\* FunctionExpression::canEvaluate(const core::TypedExprPtr&).
FunctionExpression_canEvaluate(fnRegistry, label) ==
  IF label.kind \in {"kFieldAccess", "kDereference", "kInput", "kConstant"}
    THEN TRUE
    ELSE IF label.kind # "kCall"
      THEN FALSE
      ELSE label.name \in DOMAIN fnRegistry

\* The predicates a strategy can be registered with.  "null" is an empty
\* std::function; "function" is the pair of FunctionExpression::canEvaluate
\* overloads; the others stand for the predicates of other strategies.
Predicates == {"null", "function", "acceptAll", "acceptCalls", "acceptNone"}

\* entry.canEvaluate && entry.canEvaluate(expr), on a typed expression node.
CanEvaluate(pred, fnRegistry, label) ==
  CASE pred = "null" -> FALSE
    [] pred = "function" -> FunctionExpression_canEvaluate(fnRegistry, label)
    [] pred = "acceptAll" -> TRUE
    [] pred = "acceptCalls" -> label.kind \in {"kCall", "kCast"}
    [] OTHER -> FALSE

\* entry.canEvaluateCompiled && entry.canEvaluateCompiled(expr), on a
\* compiled expression node.
CanEvaluateCompiled(pred, fnRegistry, label) ==
  CASE pred = "null" -> FALSE
    [] pred = "function" -> FunctionExpression_canEvaluateCompiled(fnRegistry, label)
    [] pred = "acceptAll" -> TRUE
    [] pred = "acceptCalls" -> label.kind = "Expr"
    [] OTHER -> FALSE

\* struct CudfExpressionEvaluatorEntry.
CudfExpressionEvaluatorEntry(priority, canEvaluate, canEvaluateCompiled, create) ==
  [priority |-> priority, canEvaluate |-> canEvaluate,
   canEvaluateCompiled |-> canEvaluateCompiled, create |-> create]

\* A wrong registerCudfExpressionEvaluator: an existing entry is kept only
\* when the new priority is not higher, whatever the overwrite flag says.
registerCudfExpressionEvaluatorByPriority(registry, name, entry, overwrite) ==
  IF name \in DOMAIN registry /\ (~overwrite /\ entry.priority <= registry[name].priority)
    THEN [ret |-> FALSE, registry |-> registry]
    ELSE [ret |-> TRUE, registry |-> MapPut(registry, name, entry)]

\* registerCudfExpressionEvaluator(name, priority, canEvaluate,
\* canEvaluateCompiled, create, overwrite): the returned flag and the
\* registry after the call.
registerCudfExpressionEvaluator(registry, name, entry, overwrite) ==
  IF ~overwrite /\ name \in DOMAIN registry
    THEN [ret |-> FALSE, registry |-> registry]
    ELSE [ret |-> TRUE, registry |-> MapPut(registry, name, entry)]

\* The entry ensureBuiltinExpressionEvaluatorsRegistered registers.
FunctionEvaluatorEntry ==
  CudfExpressionEvaluatorEntry(kFunctionPriority, "function", "function",
                               "FunctionExpression::create")

\* A wrong ensureBuiltinExpressionEvaluatorsRegistered: the strategy
\* "function" is registered with overwrite.
ensureBuiltinExpressionEvaluatorsOverwriting(registry, flag) ==
  IF flag
    THEN [registry |-> registry, registered |-> TRUE]
    ELSE [registry |->
            registerCudfExpressionEvaluator(registry, "function",
                                            FunctionEvaluatorEntry, TRUE).registry,
          registered |-> TRUE]

\* ensureBuiltinExpressionEvaluatorsRegistered(): the registry and the static
\* flag after the call.
ensureBuiltinExpressionEvaluatorsRegistered(registry, flag) ==
  IF flag
    THEN [registry |-> registry, registered |-> TRUE]
    ELSE [registry |->
            registerCudfExpressionEvaluator(registry, "function",
                                            FunctionEvaluatorEntry, FALSE).registry,
          registered |-> TRUE]

\* canBeEvaluatedByCudf(std::shared_ptr<velox::exec::Expr>), on the registry
\* as it is after ensureBuiltinExpressionEvaluatorsRegistered.
canBeEvaluatedByCudfCompiled(registry, fnRegistry, label) ==
  \E name \in DOMAIN registry :
    CanEvaluateCompiled(registry[name].canEvaluateCompiled, fnRegistry, label)

(***************************************************************************)
(* Calls on the evaluator registry.                                        *)
(***************************************************************************)
\* Strategy names used by the callers of the model.
EvaluatorNames == {"function", "ast"}

\* Identities of the create factories handed to the registration.
Creates == {"createA", "createB"}

\* A registerCudfExpressionEvaluator call with its arguments drawn from the
\* given sets.
RegisterEvaluatorFrom(names, priorities, preds, compiledPreds, creates) ==
  /\ \E name \in names, priority \in priorities, canEvaluate \in preds,
        canEvaluateCompiled \in compiledPreds, create \in creates,
        overwrite \in BOOLEAN :
       LET entry == CudfExpressionEvaluatorEntry(priority, canEvaluate,
                                                 canEvaluateCompiled, create)
           r == registerCudfExpressionEvaluator(evaluatorRegistry, name, entry, overwrite)
       IN  /\ evaluatorRegistry' = r.registry
           /\ call' = [op |-> "registerCudfExpressionEvaluator", name |-> name,
                       entry |-> entry, overwrite |-> overwrite, ret |-> r.ret,
                       before |-> evaluatorRegistry]
  /\ UNCHANGED <<functionRegistry, functionCalls, registered, expr, driver, compileState,
                 isCudfRegistered, mr_, adapters, translators,
                 builder, vectors, threads>>

CallRegisterCudfExpressionEvaluator ==
  RegisterEvaluatorFrom(EvaluatorNames, {kFunctionPriority, kFunctionPriority + 50},
                        {"null", "acceptAll"}, {"null", "acceptCalls"}, Creates)

\* Root labels of the compiled expressions handed to
\* canBeEvaluatedByCudf(std::shared_ptr<velox::exec::Expr>).
ExprLabels ==
  {[kind |-> "FieldReference", name |-> "year"],
   [kind |-> "ConstantExpr", name |-> "literal"],
   [kind |-> "Expr", name |-> "year"],
   [kind |-> "Expr", name |-> "unknown"]}

CallCanBeEvaluatedByCudfCompiled ==
  /\ \E label \in ExprLabels :
       LET e == ensureBuiltinExpressionEvaluatorsRegistered(evaluatorRegistry, registered)
       IN  /\ evaluatorRegistry' = e.registry
           /\ registered' = e.registered
           /\ call' = [op |-> "canBeEvaluatedByCudf(Expr)", expr |-> label,
                       ret |-> canBeEvaluatedByCudfCompiled(e.registry, functionRegistry, label)]
  /\ UNCHANGED <<functionRegistry, functionCalls, expr, driver, compileState,
                 isCudfRegistered, mr_, adapters, translators,
                 builder, vectors, threads>>

InitEvaluatorRegistry ==
  /\ functionRegistry = EmptyMap
  /\ functionCalls = <<>>
  /\ evaluatorRegistry = EmptyMap
  /\ registered = FALSE
  /\ call = NoCall
  /\ expr = NoExpr
  /\ driver = NoDriver
  /\ compileState = NoCompile
  /\ NothingRegistered
  /\ NoBuilderNoThreads

NextEvaluatorRegistry ==
  \/ CallRegisterCudfExpressionEvaluator
  \/ CallCanBeEvaluatedByCudfCompiled

SpecEvaluatorRegistry == InitEvaluatorRegistry /\ [][NextEvaluatorRegistry]_vars

(***************************************************************************)
(* C2: registering a strategy name that already exists with                *)
(* overwrite = false returns false and leaves the existing entry           *)
(* (priority, both predicates, factory) and the rest of the registry       *)
(* untouched; with overwrite = true, or for a new name, it returns true    *)
(* and the entry holds exactly the priority, predicates and factory of     *)
(* that call.                                                              *)
(***************************************************************************)
C2_RegisterEvaluatorFirstWinsOrOverwrite ==
  call.op = "registerCudfExpressionEvaluator" =>
    IF call.name \in DOMAIN call.before /\ ~call.overwrite
      THEN /\ call.ret = FALSE
           /\ evaluatorRegistry = call.before
      ELSE /\ call.ret = TRUE
           /\ DOMAIN evaluatorRegistry = (DOMAIN call.before) \cup {call.name}
           /\ evaluatorRegistry[call.name] = call.entry
           /\ \A n \in (DOMAIN call.before) \ {call.name} :
                evaluatorRegistry[n] = call.before[n]

\* A refused registration of "function" after the built-in entry was
\* installed: the call carries another priority, other predicates and
\* another factory, and the built-in entry stays.
C2_Witness ==
  /\ call.op = "registerCudfExpressionEvaluator"
  /\ call.name = "function" /\ ~call.overwrite /\ call.ret = FALSE
  /\ registered
  /\ call.entry.priority # kFunctionPriority
  /\ call.entry.create = "createB"
  /\ evaluatorRegistry["function"] = FunctionEvaluatorEntry

(***************************************************************************)
(* The built-in functions.                                                 *)
(***************************************************************************)
\* The registrations of registerBuiltinFunctions, in source order: the name
\* (without prefix) and the CudfFunction class the factory constructs.
BuiltinFunctions ==
  << <<"split", "SplitFunction">>, <<"cardinality", "CardinalityFunction">>,
     <<"substr", "SubstrFunction">>, <<"substring", "SubstrFunction">>,
     <<"hash_with_seed", "HashFunction">>, <<"round", "RoundFunction">>,
     <<"year", "YearFunction">>, <<"length", "LengthFunction">>,
     <<"lower", "LowerFunction">>, <<"like", "LikeFunction">>,
     <<"greaterthan", "BinaryFunction">>, <<"gt", "BinaryFunction">>,
     <<"divide", "BinaryFunction">>, <<"switch", "SwitchFunction">>,
     <<"if", "SwitchFunction">>, <<"try_cast", "CastFunction">>,
     <<"cast", "CastFunction">>, <<"date_add", "DateAddFunction">> >>

\* The value of overwrite when registerCudfFunction or registerCudfFunctions
\* is called without it, as registerBuiltinFunctions does: the default of
\* the declaration.
DefaultOverwrite == FALSE

RECURSIVE registerBuiltinFunctionsFrom(_, _, _)
registerBuiltinFunctionsFrom(registry, prefix, k) ==
  IF k > Len(BuiltinFunctions)
    THEN registry
    ELSE registerBuiltinFunctionsFrom(
           registerCudfFunction(registry, prefix \o BuiltinFunctions[k][1],
                                BuiltinFunctions[k][2], DefaultOverwrite).registry,
           prefix, k + 1)

\* registerBuiltinFunctions(prefix): the registry after the call.
registerBuiltinFunctions(registry, prefix) ==
  registerBuiltinFunctionsFrom(registry, prefix, 1)

(***************************************************************************)
(* The logical feasibility check.                                          *)
(***************************************************************************)
RECURSIVE canBeEvaluatedByCudf(_, _, _, _)
RECURSIVE canBeEvaluatedByCudfList(_, _, _, _)

\* A wrong canBeEvaluatedByCudf: only the root is asked about, its inputs
\* are not visited.
canBeEvaluatedByCudfRootOnly(registry, fnRegistry, t, i) ==
  \E name \in DOMAIN registry :
    CanEvaluate(registry[name].canEvaluate, fnRegistry, t.label[i])

\* canBeEvaluatedByCudf(const core::TypedExprPtr&) on node i of tree t, on
\* the registry as it is after ensureBuiltinExpressionEvaluatorsRegistered.
canBeEvaluatedByCudf(registry, fnRegistry, t, i) ==
  LET currentRootSupported ==
        \E name \in DOMAIN registry :
          CanEvaluate(registry[name].canEvaluate, fnRegistry, t.label[i])
  IN  IF ~currentRootSupported
        THEN FALSE
        ELSE canBeEvaluatedByCudfList(registry, fnRegistry, t, Inputs(t, i))

\* canBeEvaluatedByCudf(const std::vector<core::TypedExprPtr>&) on the
\* expressions rooted at the nodes exprs of tree t.
canBeEvaluatedByCudfList(registry, fnRegistry, t, exprs) ==
  \A k \in 1..Len(exprs) : canBeEvaluatedByCudf(registry, fnRegistry, t, exprs[k])

(***************************************************************************)
(* The expression compiler.                                                *)
(***************************************************************************)
\* The iteration orders std::unordered_map can present the keys S in.
IterationOrders(S) ==
  {o \in [1..Cardinality(S) -> S] : \A a, b \in 1..Cardinality(S) : o[a] = o[b] => a = b}

\* A wrong comparison: the lower priority wins.
PriorityBeatsInverted(priority, bestPriority) == priority < bestPriority

\* entry.priority > best->priority
PriorityBeats(priority, bestPriority) == priority > bestPriority

\* A wrong selection loop: the excluded name is not skipped.
RECURSIVE SelectBestIgnoringExcept(_, _, _, _, _, _, _)
SelectBestIgnoringExcept(registry, order, k, fnRegistry, label, except, best) ==
  IF k > Len(order)
    THEN best
    ELSE LET name == order[k]
             entry == registry[name]
         IN  IF /\ CanEvaluateCompiled(entry.canEvaluateCompiled, fnRegistry, label)
                /\ \/ best = "nullptr"
                   \/ PriorityBeats(entry.priority, registry[best].priority)
               THEN SelectBestIgnoringExcept(registry, order, k + 1, fnRegistry, label,
                                             except, name)
               ELSE SelectBestIgnoringExcept(registry, order, k + 1, fnRegistry, label,
                                             except, best)

\* The loop of createCudfExpression over the registry from position k of the
\* iteration order: the name of the entry `best` points to at the end, or
\* "nullptr".
RECURSIVE SelectBest(_, _, _, _, _, _, _)
SelectBest(registry, order, k, fnRegistry, label, except, best) ==
  IF k > Len(order)
    THEN best
    ELSE LET name == order[k]
             entry == registry[name]
         IN  IF except # "nullopt" /\ name = except
               THEN SelectBest(registry, order, k + 1, fnRegistry, label, except, best)
               ELSE IF /\ CanEvaluateCompiled(entry.canEvaluateCompiled, fnRegistry, label)
                       /\ \/ best = "nullptr"
                          \/ PriorityBeats(entry.priority, registry[best].priority)
                      THEN SelectBest(registry, order, k + 1, fnRegistry, label, except, name)
                      ELSE SelectBest(registry, order, k + 1, fnRegistry, label, except, best)

\* left_ and right_ of a BinaryFunction or a SwitchFunction after the
\* if / else if of the constructor on the two operands at nodes left and
\* right of tree t: the scalar made of a constant operand, or none.
ConstantOperands(t, left, right) ==
  IF t.label[left].kind = "ConstantExpr"
    THEN [left_ |-> {[scalar |-> t.label[left]]}, right_ |-> {}]
  ELSE IF t.label[right].kind = "ConstantExpr"
    THEN [left_ |-> {}, right_ |-> {[scalar |-> t.label[right]]}]
  ELSE [left_ |-> {}, right_ |-> {}]

\* The message of the check that fails in the constructor of the
\* CudfFunction class the factory makes, on the call at node i of tree t, or
\* "" when the function is constructed.  A ConstantExpr is a node of kind
\* "ConstantExpr".  The other classes are not called in this model.
ConstructorError(class, t, i) ==
  LET inputs == Inputs(t, i)
      size == Len(inputs)
      isConstant(k) == t.label[inputs[k]].kind = "ConstantExpr"
  IN  CASE class = "YearFunction" ->
             IF size # 1 THEN "year expects exactly 1 input column" ELSE ""
        [] class = "LengthFunction" ->
             IF size # 1 THEN "length expects exactly 1 input column" ELSE ""
        [] class = "LowerFunction" ->
             IF size # 1 THEN "lower expects exactly 1 input column" ELSE ""
        [] class = "CardinalityFunction" ->
             IF size # 1 THEN "cardinality expects exactly 1 input" ELSE ""
        [] class = "LikeFunction" ->
             IF size # 2 THEN "like expects 2 inputs"
             ELSE IF ~isConstant(2) THEN "like pattern must be a constant" ELSE ""
        [] class = "SubstrFunction" ->
             IF size < 2 THEN "substr expects at least 2 inputs"
             ELSE IF size > 3 THEN "substr expects at most 3 inputs"
             ELSE IF ~isConstant(2) THEN "substr start must be a constant"
             ELSE IF size > 2 /\ ~isConstant(3) THEN "substr length must be a constant"
             ELSE ""
        [] class = "BinaryFunction" ->
             IF size # 2 THEN "binary function expects exactly 2 inputs"
             ELSE LET c == ConstantOperands(t, inputs[1], inputs[2])
                  IN  IF c.left_ # {} /\ c.right_ # {}
                        THEN "Not support both left and right are literals"
                        ELSE ""
        [] class = "SwitchFunction" ->
             IF size # 3 THEN "case when expects exactly 3 inputs"
             ELSE IF t.label[inputs[1]].type # "BOOLEAN"
               THEN "The switch condition result type should be boolean"
             ELSE IF t.label[i].kind = "ConstantExpr"
               THEN "The condition should not be constant"
             ELSE ""
        [] OTHER -> ""

\* The first non-empty error of a sequence of compiled nodes, or "".
RECURSIVE FirstError(_)
FirstError(nodes) ==
  IF nodes = <<>> THEN ""
  ELSE IF Head(nodes).error # "" THEN Head(nodes).error
  ELSE FirstError(Tail(nodes))

RECURSIVE createCudfExpression(_, _, _, _, _, _)
RECURSIVE FunctionExpression_create(_, _, _, _, _, _)

\* createCudfExpression(expr, inputRowSchema, except) on node i of tree t:
\* the compiled node.  Its field evaluator names the registry entry whose
\* create was invoked ("nullptr" when none claimed the node).  A node with
\* a non-empty error stands for the exception thrown, instead of a return,
\* by the constructor of a function during the call.
createCudfExpression(registry, order, fnRegistry, t, i, except) ==
  LET best == SelectBest(registry, order, 1, fnRegistry, t.label[i], except, "nullptr")
  IN  IF best # "nullptr"
        THEN IF registry[best].create = "FunctionExpression::create"
               THEN FunctionExpression_create(registry, order, fnRegistry, t, i, best)
               ELSE [evaluator |-> best, create |-> registry[best].create, node |-> i,
                     error |-> ""]
        ELSE FunctionExpression_create(registry, order, fnRegistry, t, i, "nullptr")

\* FunctionExpression::create(expr, inputRowSchema) on node i of tree t.
FunctionExpression_create(registry, order, fnRegistry, t, i, evaluator) ==
  LET function == createCudfFunction(fnRegistry, t.label[i].name)
      inputs == SelectSeq(Inputs(t, i), LAMBDA j : t.label[j].name # "literal")
      thrown == IF function # "nullptr" THEN ConstructorError(function, t, i) ELSE ""
      subexpressions ==
        IF function # "nullptr" /\ thrown = ""
          THEN [k \in 1..Len(inputs) |->
                  createCudfExpression(registry, order, fnRegistry, t, inputs[k], "nullopt")]
          ELSE <<>>
  IN  [evaluator |-> evaluator, create |-> "FunctionExpression::create", node |-> i,
       function |-> IF thrown = "" THEN function ELSE "nullptr",
       subexpressions |-> subexpressions,
       error |-> IF thrown # "" THEN thrown ELSE FirstError(subexpressions)]

(***************************************************************************)
(* Calls of the expression compiler on one expression.                     *)
(***************************************************************************)
\* Labels of logical expression nodes.
TypedLabels ==
  {[kind |-> "kFieldAccess", name |-> "a"],
   [kind |-> "kCall", name |-> "year"],
   [kind |-> "kLambda", name |-> "lambda"]}

TypedExprs == {[type |-> "TypedExpr", tree |-> t] : t \in TreesUpTo(TypedLabels, MaxTypedNodes)}

CompiledExprs == {[type |-> "Expr", tree |-> t] : t \in TreesUpTo(ExprLabels, MaxExprNodes)}

\* The entries another strategy ("ast") is registered with.
StrategyEntries ==
  {CudfExpressionEvaluatorEntry(p, c[1], c[2], "createA") :
     p \in {kFunctionPriority - 10, kFunctionPriority, kFunctionPriority + 50},
     c \in {<<"acceptCalls", "acceptCalls">>, <<"acceptAll", "acceptAll">>,
            <<"null", "null">>}}

CallCanBeEvaluatedByCudf ==
  /\ expr.type = "TypedExpr"
  /\ LET e == ensureBuiltinExpressionEvaluatorsRegistered(evaluatorRegistry, registered)
     IN  /\ evaluatorRegistry' = e.registry
         /\ registered' = e.registered
         /\ call' = [op |-> "canBeEvaluatedByCudf",
                     ret |-> canBeEvaluatedByCudf(e.registry, functionRegistry, expr.tree, 1)]
  /\ UNCHANGED <<functionRegistry, functionCalls, expr, driver, compileState,
                 isCudfRegistered, mr_, adapters, translators,
                 builder, vectors, threads>>

\* The list form, on the inputs of the root as the list of expressions.
CallCanBeEvaluatedByCudfList ==
  /\ expr.type = "TypedExpr"
  /\ LET e == ensureBuiltinExpressionEvaluatorsRegistered(evaluatorRegistry, registered)
     IN  /\ evaluatorRegistry' = e.registry
         /\ registered' = e.registered
         /\ call' = [op |-> "canBeEvaluatedByCudf(list)",
                     exprs |-> Inputs(expr.tree, 1),
                     ret |-> canBeEvaluatedByCudfList(e.registry, functionRegistry,
                                                      expr.tree, Inputs(expr.tree, 1))]
  /\ UNCHANGED <<functionRegistry, functionCalls, expr, driver, compileState,
                 isCudfRegistered, mr_, adapters, translators,
                 builder, vectors, threads>>

CallCreateCudfExpression ==
  /\ expr.type = "Expr"
  /\ LET e == ensureBuiltinExpressionEvaluatorsRegistered(evaluatorRegistry, registered)
     IN  /\ evaluatorRegistry' = e.registry
         /\ registered' = e.registered
         /\ \E except \in {"nullopt", "function", "ast"},
               order \in IterationOrders(DOMAIN e.registry) :
              call' = [op |-> "createCudfExpression", except |-> except,
                       ret |-> createCudfExpression(e.registry, order, functionRegistry,
                                                    expr.tree, 1, except)]
  /\ UNCHANGED <<functionRegistry, functionCalls, expr, driver, compileState,
                 isCudfRegistered, mr_, adapters, translators,
                 builder, vectors, threads>>

InitExpression ==
  /\ functionRegistry \in {EmptyMap, registerBuiltinFunctions(EmptyMap, "")}
  /\ functionCalls = <<>>
  /\ registered \in BOOLEAN
  /\ \E base \in {IF registered
                    THEN ensureBuiltinExpressionEvaluatorsRegistered(EmptyMap, FALSE).registry
                    ELSE EmptyMap} :
       evaluatorRegistry \in {base} \cup {MapPut(base, "ast", entry) : entry \in StrategyEntries}
  /\ call = NoCall
  /\ expr \in TypedExprs \cup CompiledExprs
  /\ driver = NoDriver
  /\ compileState = NoCompile
  /\ NothingRegistered
  /\ NoBuilderNoThreads

NextExpression ==
  \/ CallCanBeEvaluatedByCudf
  \/ CallCanBeEvaluatedByCudfList
  \/ CallCreateCudfExpression

SpecExpression == InitExpression /\ [][NextExpression]_vars

(***************************************************************************)
(* C3: when registered strategies claim the expression through             *)
(* canEvaluateCompiled, createCudfExpression invokes the factory of a      *)
(* claimant that is not the excluded one and whose priority is >= the      *)
(* priority of every other non-excluded claimant, whatever order the       *)
(* registry presents its entries in; so of two claimants the one with the  *)
(* strictly higher priority is chosen.                                     *)
(***************************************************************************)
Claimants ==
  {n \in DOMAIN evaluatorRegistry :
     /\ n # call.except
     /\ CanEvaluateCompiled(evaluatorRegistry[n].canEvaluateCompiled, functionRegistry,
                            expr.tree.label[1])}

C3_HighestPriorityClaimantChosen ==
  (call.op = "createCudfExpression" /\ Claimants # {}) =>
    /\ call.ret.evaluator \in Claimants
    /\ call.ret.create = evaluatorRegistry[call.ret.evaluator].create
    /\ \A c \in Claimants :
         evaluatorRegistry[call.ret.evaluator].priority >= evaluatorRegistry[c].priority

\* Both strategies claim a registered call; "ast" has the lower priority
\* and the built-in function strategy is chosen.
C3_Witness ==
  /\ call.op = "createCudfExpression"
  /\ Claimants = {"function", "ast"}
  /\ evaluatorRegistry["ast"].priority < evaluatorRegistry["function"].priority
  /\ call.ret.evaluator = "function"
  /\ Len(expr.tree.label) = 3

(***************************************************************************)
(* C4: canBeEvaluatedByCudf(tree) is true exactly when every node of the   *)
(* tree, the root and every nested descendant, is accepted by the logical  *)
(* canEvaluate predicate of at least one registered strategy; one          *)
(* unaccepted node makes it false even when the root and all the other     *)
(* nodes are accepted.  The list form is true exactly when this holds of   *)
(* every expression of the list.                                           *)
(***************************************************************************)
Accepted(i) ==
  \E n \in DOMAIN evaluatorRegistry :
    CanEvaluate(evaluatorRegistry[n].canEvaluate, functionRegistry, expr.tree.label[i])

C4_ConservativeTreeFeasibility ==
  /\ call.op = "canBeEvaluatedByCudf" =>
       (call.ret <=> \A i \in Nodes(expr.tree) : Accepted(i))
  /\ call.op = "canBeEvaluatedByCudf(list)" =>
       (call.ret <=> \A i \in Nodes(expr.tree) \ {1} : Accepted(i))

\* year(a, year(lambda)): only the nested lambda is accepted by no
\* strategy, and the tree is refused.
C4_Witness ==
  /\ call.op = "canBeEvaluatedByCudf"
  /\ call.ret = FALSE
  /\ Len(expr.tree.label) = 4
  /\ expr.tree.parent = <<0, 1, 1, 3>>
  /\ {i \in Nodes(expr.tree) : ~Accepted(i)} = {4}

(***************************************************************************)
(* C14, as stated: when no registered strategy other than the excluded one *)
(* accepts the expression through canEvaluateCompiled,                     *)
(* FunctionExpression::create is used and a compiled node is returned.     *)
(***************************************************************************)
C14_FallbackAlwaysReturnsNode ==
  (call.op = "createCudfExpression" /\ Claimants = {}) =>
    /\ call.ret.create = "FunctionExpression::create"
    /\ call.ret.error = ""

\* The function the registry holds for the name of the root, or "nullptr".
RootFunction ==
  IF expr.tree.label[1].name \in DOMAIN functionRegistry
    THEN functionRegistry[expr.tree.label[1].name]
    ELSE "nullptr"

(***************************************************************************)
(* C14, amended: when no registered strategy other than the excluded one   *)
(* accepts the expression through canEvaluateCompiled,                     *)
(* FunctionExpression::create is used on it; it never returns null: it     *)
(* returns a compiled node holding the function the registry makes for the *)
(* expression's name, unless the constructor of that function, or of the   *)
(* function of a nested call, rejects its call, and then that validation   *)
(* error propagates out of createCudfExpression.                           *)
(***************************************************************************)
C14_FallbackCompilerAlwaysUsed ==
  (call.op = "createCudfExpression" /\ Claimants = {}) =>
    /\ call.ret.evaluator = "nullptr"
    /\ call.ret.create = "FunctionExpression::create"
    /\ call.ret.node = 1
    /\ call.ret.error = "" => call.ret.function = RootFunction
    /\ call.ret.error # "" =>
         \E i \in Nodes(expr.tree) :
           /\ expr.tree.label[i].name \in DOMAIN functionRegistry
           /\ call.ret.error =
                ConstructorError(functionRegistry[expr.tree.label[i].name], expr.tree, i)

\* The built-in strategy is excluded and nothing else claims year(x): the
\* fallback compiled it with its YearFunction and its one input.
C14_Witness ==
  /\ call.op = "createCudfExpression"
  /\ call.except = "function"
  /\ Claimants = {}
  /\ call.ret.create = "FunctionExpression::create"
  /\ call.ret.error = ""
  /\ call.ret.function = "YearFunction"
  /\ Len(call.ret.subexpressions) = 1

(***************************************************************************)
(* C15: createCudfExpression(expr, schema, except = X) never selects the   *)
(* registry entry named X, also when X is the only claimant or the one of  *)
(* highest priority; the other entries are still considered, so one of     *)
(* them is selected when it claims the expression; and an entry without a  *)
(* canEvaluateCompiled predicate is never selected.                        *)
(***************************************************************************)
C15_ExcludedStrategyNeverSelected ==
  call.op = "createCudfExpression" =>
    /\ call.except # "nullopt" => call.ret.evaluator # call.except
    /\ Claimants # {} => call.ret.evaluator \in Claimants
    /\ call.ret.evaluator # "nullptr" =>
         evaluatorRegistry[call.ret.evaluator].canEvaluateCompiled # "null"

\* The excluded built-in strategy claims the expression with the highest
\* priority; the other strategy, of lower priority, is selected.
C15_Witness ==
  /\ call.op = "createCudfExpression"
  /\ call.except = "function"
  /\ "function" \in DOMAIN evaluatorRegistry
  /\ CanEvaluateCompiled(evaluatorRegistry["function"].canEvaluateCompiled,
                         functionRegistry, expr.tree.label[1])
  /\ Claimants = {"ast"}
  /\ evaluatorRegistry["ast"].priority < evaluatorRegistry["function"].priority
  /\ call.ret.evaluator = "ast"

(***************************************************************************)
(* Pipelines.  An operator is [operatorId, kind, node]: kind is the class  *)
(* of the exec::Operator and node the plan node getPlanNode finds for it.  *)
(***************************************************************************)
\* The expressions of the plan nodes: year(a), at node 1, year(lambda), at
\* node 3, and year(), a call without its argument, at node 5; node 2 is
\* the field a.
PlanExprs ==
  [label |-> << [kind |-> "kCall", name |-> "year"],
                [kind |-> "kFieldAccess", name |-> "a"],
                [kind |-> "kCall", name |-> "year"],
                [kind |-> "kLambda", name |-> "lambda"],
                [kind |-> "kCall", name |-> "year"] >>,
   parent |-> <<0, 1, 0, 3, 0>>]

TableScanNode(connector) == [type |-> "TableScanNode", connector |-> connector]

HashJoinNode(joinType, nullAware, filter) ==
  [type |-> "HashJoinNode", joinType |-> joinType, isNullAware |-> nullAware,
   filter |-> filter]

\* The plan of a FilterProject: project tells whether there is a
\* ProjectNode, projections are its expressions (nodes of PlanExprs), and
\* filter is the expression of the FilterNode, or 0 without a FilterNode.
FilterProjectNode(project, projections, filter) ==
  [type |-> "ProjectNode", project |-> project, projections |-> projections,
   filter |-> filter]

LocalPartitionNode(partitioning) ==
  [type |-> "LocalPartitionNode", partitioning |-> partitioning]

PlainNode(type) == [type |-> type]

\* The source operators: a driver's first operator is the source operator of
\* its pipeline, and source operators stand nowhere else.
SourceOperators ==
  {[kind |-> "TableScan", node |-> TableScanNode("CudfHiveConnector")],
   [kind |-> "TableScan", node |-> TableScanNode("HiveConnector")],
   [kind |-> "Values", node |-> PlainNode("ValuesNode")],
   [kind |-> "LocalExchange", node |-> LocalPartitionNode("hash")]}

\* The operators that follow the source operator.
PipelineOperators ==
  {[kind |-> "HashBuild", node |-> HashJoinNode("kInner", FALSE, FALSE)],
   [kind |-> "HashBuild", node |-> HashJoinNode("kFull", FALSE, FALSE)],
   [kind |-> "HashProbe", node |-> HashJoinNode("kInner", FALSE, FALSE)],
   [kind |-> "HashProbe", node |-> HashJoinNode("kAnti", TRUE, TRUE)],
   [kind |-> "HashProbe", node |-> HashJoinNode("kAnti", TRUE, FALSE)],
   [kind |-> "HashBuild", node |-> HashJoinNode("kAnti", FALSE, TRUE)],
   [kind |-> "OrderBy", node |-> PlainNode("OrderByNode")],
   [kind |-> "HashAggregation", node |-> PlainNode("AggregationNode")],
   [kind |-> "Limit", node |-> PlainNode("LimitNode")],
   [kind |-> "AssignUniqueId", node |-> PlainNode("AssignUniqueIdNode")],
   [kind |-> "FilterProject", node |-> FilterProjectNode(TRUE, <<1, 2>>, 0)],
   [kind |-> "FilterProject", node |-> FilterProjectNode(TRUE, <<2>>, 3)],
   [kind |-> "FilterProject", node |-> FilterProjectNode(FALSE, <<>>, 1)],
   [kind |-> "FilterProject", node |-> FilterProjectNode(TRUE, <<5>>, 0)],
   [kind |-> "LocalPartition", node |-> LocalPartitionNode("hash")],
   [kind |-> "LocalPartition", node |-> LocalPartitionNode("roundRobin")],
   [kind |-> "TopN", node |-> PlainNode("TopNNode")],
   [kind |-> "StreamingAggregation", node |-> PlainNode("AggregationNode")],
   [kind |-> "CallbackSink", node |-> PlainNode("sink")]}

\* The operator list a driver is created with from the operators p:
\* operator i has operatorId i.
Pipeline(p) ==
  [i \in 1..Len(p) |-> [operatorId |-> i - 1, kind |-> p[i].kind, node |-> p[i].node]]

\* isAnyOf<Deriveds...>(op)
isAnyOf(kinds, op) == op.kind \in kinds

\* CudfHashJoinProbe::isSupportedJoinType(joinType)
isSupportedJoinType(joinType) ==
  joinType \in {"kInner", "kLeft", "kRight", "kAnti", "kLeftSemiFilter", "kRightSemiFilter"}

\* CudfLocalPartition::shouldReplace(planNode): false for round-robin
\* (content-independent) partitioning.
shouldReplace(planNode) == planNode.partitioning # "roundRobin"

\* driverFactory_.replaceOperators(driver_, begin, end, replaceWith): the
\* operators at positions [begin, end), counted from 0, are replaced.
replaceOperators(operators, begin, end, replaceWith) ==
  [k \in 1..(IF begin <= Len(operators) THEN begin ELSE Len(operators)) |-> operators[k]]
    \o replaceWith
    \o [k \in 1..(IF end <= Len(operators) THEN Len(operators) - end ELSE 0) |->
          operators[end + k]]

\* The isTableScanSupported lambda.
isTableScanSupported(op) ==
  IF ~isAnyOf({"TableScan"}, op)
    THEN FALSE
    ELSE op.node.connector = "CudfHiveConnector"

\* A wrong isFilterProjectSupported: the filter expression is not checked.
isFilterProjectSupportedProjectionsOnly(op, registry, fnRegistry) ==
  IF op.kind = "FilterProject"
    THEN ~(op.node.project
           /\ ~canBeEvaluatedByCudfList(registry, fnRegistry, PlanExprs, op.node.projections))
    ELSE FALSE

\* The isFilterProjectSupported lambda, on the evaluator registry as it is
\* after ensureBuiltinExpressionEvaluatorsRegistered.
isFilterProjectSupported(op, registry, fnRegistry) ==
  IF op.kind = "FilterProject"
    THEN LET projectionsFail ==
               /\ op.node.project
               /\ ~canBeEvaluatedByCudfList(registry, fnRegistry, PlanExprs,
                                            op.node.projections)
             filterFails ==
               /\ ~projectionsFail
               /\ op.node.filter # 0
               /\ ~canBeEvaluatedByCudfList(registry, fnRegistry, PlanExprs,
                                            <<op.node.filter>>)
         IN  ~projectionsFail /\ ~filterFails
    ELSE FALSE

\* A wrong isJoinSupported: only the probe side is supported.
isJoinSupportedOfProbes(op) ==
  /\ isAnyOf({"HashProbe"}, op)
  /\ op.node.type = "HashJoinNode"
  /\ isSupportedJoinType(op.node.joinType)
  /\ ~(op.node.joinType = "kAnti" /\ op.node.isNullAware /\ op.node.filter)

\* A wrong isJoinSupported: a null-aware anti join with a filter passes.
isJoinSupportedOfEveryAntiJoin(op) ==
  IF ~isAnyOf({"HashBuild", "HashProbe"}, op)
    THEN FALSE
    ELSE IF op.node.type # "HashJoinNode"
      THEN FALSE
      ELSE isSupportedJoinType(op.node.joinType)

\* The isJoinSupported lambda.
isJoinSupported(op) ==
  IF ~isAnyOf({"HashBuild", "HashProbe"}, op)
    THEN FALSE
    ELSE IF op.node.type # "HashJoinNode"
      THEN FALSE
      ELSE IF ~isSupportedJoinType(op.node.joinType)
        THEN FALSE
        ELSE IF op.node.joinType = "kAnti" /\ op.node.isNullAware /\ op.node.filter
          THEN FALSE
          ELSE TRUE

\* The isSupportedGpuOperator lambda.
isSupportedGpuOperator(op, registry, fnRegistry) ==
  \/ isAnyOf({"OrderBy", "HashAggregation", "Limit", "LocalPartition", "LocalExchange",
              "AssignUniqueId"}, op)
  \/ isFilterProjectSupported(op, registry, fnRegistry)
  \/ isJoinSupported(op)
  \/ isTableScanSupported(op)

\* The acceptsGpuInput lambda.
acceptsGpuInput(op, registry, fnRegistry) ==
  \/ isAnyOf({"OrderBy", "HashAggregation", "Limit", "LocalPartition", "AssignUniqueId"}, op)
  \/ isFilterProjectSupported(op, registry, fnRegistry)
  \/ isJoinSupported(op)

\* A wrong producesGpuOutput: the supported table scan is left out.
producesGpuOutputWithoutTableScan(op, registry, fnRegistry) ==
  \/ isAnyOf({"OrderBy", "HashAggregation", "Limit", "LocalExchange", "AssignUniqueId"}, op)
  \/ isFilterProjectSupported(op, registry, fnRegistry)
  \/ (isAnyOf({"HashProbe"}, op) /\ isJoinSupported(op))

\* The producesGpuOutput lambda.
producesGpuOutput(op, registry, fnRegistry) ==
  \/ isAnyOf({"OrderBy", "HashAggregation", "Limit", "LocalExchange", "AssignUniqueId"}, op)
  \/ isFilterProjectSupported(op, registry, fnRegistry)
  \/ (isAnyOf({"HashProbe"}, op) /\ isJoinSupported(op))
  \/ isTableScanSupported(op)

\* The GpuReplacedOperator lambda.
GpuReplacedOperator(op) ==
  isAnyOf({"OrderBy", "TopN", "HashAggregation", "HashProbe", "HashBuild",
           "StreamingAggregation", "Limit", "LocalPartition", "LocalExchange",
           "FilterProject", "AssignUniqueId"}, op)

\* The GpuRetainedOperator lambda.
GpuRetainedOperator(op) ==
  \/ isAnyOf({"Values", "LocalExchange", "CallbackSink"}, op)
  \/ (isAnyOf({"TableScan"}, op) /\ isTableScanSupported(op))

\* std::make_unique<Cudf...>(id, ctx, planNode)
CudfOperator(kind, id, planNode) == [operatorId |-> id, kind |-> kind, node |-> planNode]

\* A wrong replacement: a LocalPartition is replaced without asking
\* CudfLocalPartition::shouldReplace.
ReplacementOfEveryLocalPartition(op, registry, fnRegistry) ==
  LET id == op.operatorId
      keep == [keepOperator |-> 1, replaceOp |-> <<>>]
      replaceBy(kind) ==
        [keepOperator |-> 0, replaceOp |-> <<CudfOperator(kind, id, op.node)>>]
  IN  IF isTableScanSupported(op) THEN keep
      ELSE IF isJoinSupported(op) THEN
        (IF op.kind = "HashBuild" THEN replaceBy("CudfHashJoinBuild")
         ELSE IF op.kind = "HashProbe" THEN replaceBy("CudfHashJoinProbe")
         ELSE [keepOperator |-> 0, replaceOp |-> <<>>])
      ELSE IF op.kind = "OrderBy" THEN replaceBy("CudfOrderBy")
      ELSE IF op.kind = "HashAggregation" THEN replaceBy("CudfHashAggregation")
      ELSE IF isFilterProjectSupported(op, registry, fnRegistry)
        THEN replaceBy("CudfFilterProject")
      ELSE IF op.kind = "Limit" THEN replaceBy("CudfLimit")
      ELSE IF op.kind = "LocalPartition" THEN
        replaceBy("CudfLocalPartition")
      ELSE IF op.kind = "LocalExchange" THEN keep
      ELSE IF op.kind = "AssignUniqueId" THEN replaceBy("CudfAssignUniqueId")
      ELSE keep

\* The branch chain of compile that decides about the current operator:
\* keepOperator, and the accelerator operator pushed to replaceOp, if any.
Replacement(op, registry, fnRegistry) ==
  LET id == op.operatorId
      keep == [keepOperator |-> 1, replaceOp |-> <<>>]
      replaceBy(kind) ==
        [keepOperator |-> 0, replaceOp |-> <<CudfOperator(kind, id, op.node)>>]
  IN  IF isTableScanSupported(op) THEN keep
      ELSE IF isJoinSupported(op) THEN
        (IF op.kind = "HashBuild" THEN replaceBy("CudfHashJoinBuild")
         ELSE IF op.kind = "HashProbe" THEN replaceBy("CudfHashJoinProbe")
         ELSE [keepOperator |-> 0, replaceOp |-> <<>>])
      ELSE IF op.kind = "OrderBy" THEN replaceBy("CudfOrderBy")
      ELSE IF op.kind = "HashAggregation" THEN replaceBy("CudfHashAggregation")
      ELSE IF isFilterProjectSupported(op, registry, fnRegistry)
        THEN replaceBy("CudfFilterProject")
      ELSE IF op.kind = "Limit" THEN replaceBy("CudfLimit")
      ELSE IF op.kind = "LocalPartition" THEN
        (IF shouldReplace(op.node) THEN replaceBy("CudfLocalPartition") ELSE keep)
      ELSE IF op.kind = "LocalExchange" THEN keep
      ELSE IF op.kind = "AssignUniqueId" THEN replaceBy("CudfAssignUniqueId")
      ELSE keep

(***************************************************************************)
(* CompileState::compile(allowCpuFallback), one action per step of its     *)
(* loop.  operatorIndex and the positions handed to replaceOperators count *)
(* from 0, as in the source.                                               *)
(***************************************************************************)
\* A wrong fallback check: the check is made whatever allowCpuFallback is.
FallbackCheckFailsAlways(allowCpuFallback, condition) == ~condition

\* if (!allowCpuFallback) VELOX_CHECK(condition, ...): whether it throws.
FallbackCheckFails(allowCpuFallback, condition) == ~allowCpuFallback /\ ~condition

\* A wrong condition: an operator that is kept with an adapter after it, or
\* kept although its kind is replaceable, passes as well.
FallbackConditionLenient(op, replaceOp, keepOperator) ==
  \/ (GpuReplacedOperator(op) /\ keepOperator = 0)
  \/ (GpuRetainedOperator(op) /\ keepOperator = 1)
  \/ (GpuReplacedOperator(op) /\ replaceOp = <<>>)

\* The condition of the fallback check.
FallbackCondition(op, replaceOp, keepOperator) ==
  \/ (GpuReplacedOperator(op) /\ replaceOp # <<>> /\ keepOperator = 0)
  \/ (GpuRetainedOperator(op) /\ replaceOp = <<>> /\ keepOperator = 1)

\* A wrong first position: the kept operator is not skipped.
ReplaceBeginIgnoresKeep(replacingOperatorIndex, keepOperator) == replacingOperatorIndex

\* replacingOperatorIndex + keepOperator, the first position replaced.
ReplaceBegin(replacingOperatorIndex, keepOperator) == replacingOperatorIndex + keepOperator

\* A wrong offset: the kept operator is not counted.
NextOperatorsOffsetWithoutKeep(operatorsOffset, size, keepOperator) ==
  operatorsOffset + size - 1

\* operatorsOffset += replaceOp.size() - 1 + keepOperator
NextOperatorsOffset(operatorsOffset, size, keepOperator) ==
  operatorsOffset + size - 1 + keepOperator

\* A wrong from-velox step: the insertion of the adapter is not recorded in
\* replacementsMade.
ReplacementsMadeAfterFromVeloxForgotten(replacementsMade, replaceOp) == replacementsMade

\* replacementsMade after the from-velox step.
ReplacementsMadeAfterFromVelox(replacementsMade, replaceOp) ==
  IF replaceOp # <<>> THEN TRUE ELSE replacementsMade

\* A wrong previousOperatorIsNotGpu: the negation is missing.
previousOperatorIsGpu(operatorIndex, isSupportedGpuOperators) ==
  operatorIndex > 0 /\ isSupportedGpuOperators[operatorIndex]

\* previousOperatorIsNotGpu; isSupportedGpuOperators[operatorIndex - 1] of
\* the source is element operatorIndex here, sequences counting from 1.
previousOperatorIsNotGpu(operatorIndex, isSupportedGpuOperators) ==
  operatorIndex > 0 /\ ~isSupportedGpuOperators[operatorIndex]

\* A wrong nextOperatorIsNotGpu: it looks at the current operator.
currentOperatorIsNotGpu(operatorIndex, isSupportedGpuOperators) ==
  /\ operatorIndex < Len(isSupportedGpuOperators) - 1
  /\ ~isSupportedGpuOperators[operatorIndex + 1]

\* nextOperatorIsNotGpu
nextOperatorIsNotGpu(operatorIndex, isSupportedGpuOperators) ==
  /\ operatorIndex < Len(isSupportedGpuOperators) - 1
  /\ ~isSupportedGpuOperators[operatorIndex + 2]

\* isLastOperatorOfTask
isLastOperatorOfTask(operatorIndex, size, outputDriver) ==
  outputDriver /\ operatorIndex = size - 1

\* A wrong iteration: it also looks at the operator before the current one.
OperatorsReadWithPrevious(operators, operatorIndex) ==
  {operators[k] : k \in {operatorIndex, operatorIndex + 1} \cap DOMAIN operators}

\* The operators of the snapshot an iteration dereferences:
\* oper = operators[operatorIndex], and no other.
OperatorsRead(operators, operatorIndex) == {operators[operatorIndex + 1]}

\* The operators replaceOperators(driver_, begin, end, ...) takes out of the
\* driver and hands back; they are destroyed at the end of the statement's
\* block.
OperatorsRemoved(operators, begin, end) ==
  {operators[k] : k \in {j \in DOMAIN operators : begin < j /\ j <= end}}

\* Whether compile evaluates an expression, and with it calls
\* ensureBuiltinExpressionEvaluatorsRegistered.
CallsCanBeEvaluatedByCudf(operators) ==
  \E i \in 1..Len(operators) :
    /\ operators[i].kind = "FilterProject"
    /\ (operators[i].node.project \/ operators[i].node.filter # 0)

\* The start of compile, up to the loop: the snapshot of the operators and
\* their classification.
CompileBegin ==
  /\ compileState.pc = "begin"
  /\ LET operators == driver.operators
         e == IF CallsCanBeEvaluatedByCudf(operators)
                THEN ensureBuiltinExpressionEvaluatorsRegistered(evaluatorRegistry, registered)
                ELSE [registry |-> evaluatorRegistry, registered |-> registered]
     IN  /\ evaluatorRegistry' = e.registry
         /\ registered' = e.registered
         /\ compileState' =
              [compileState EXCEPT
                 !.pc = "fromVelox",
                 !.operators = operators,
                 !.isSupportedGpuOperators =
                   [i \in 1..Len(operators) |->
                      isSupportedGpuOperator(operators[i], e.registry, functionRegistry)],
                 !.operatorIndex = 0,
                 !.operatorsOffset = 0,
                 !.replacementsMade = FALSE,
                 !.reads = {operators[i] : i \in DOMAIN operators},
                 !.removed = {}]
  /\ UNCHANGED <<functionRegistry, functionCalls, call, expr, driver,
                 isCudfRegistered, mr_, adapters, translators,
                 builder, vectors, threads>>

\* The first half of an iteration: the from-velox adapter.
CompileFromVelox ==
  /\ compileState.pc = "fromVelox"
  /\ compileState.operatorIndex < Len(compileState.operators)
  /\ LET operatorIndex == compileState.operatorIndex
         oper == compileState.operators[operatorIndex + 1]
         replacingOperatorIndex == operatorIndex + compileState.operatorsOffset
         replaceOp ==
           IF previousOperatorIsNotGpu(operatorIndex, compileState.isSupportedGpuOperators)
              /\ acceptsGpuInput(oper, evaluatorRegistry, functionRegistry)
             THEN <<CudfOperator("CudfFromVelox", oper.operatorId, oper.node)>>
             ELSE <<>>
     IN  /\ driver' =
              IF replaceOp # <<>>
                THEN [driver EXCEPT !.operators =
                        replaceOperators(driver.operators, replacingOperatorIndex,
                                         replacingOperatorIndex, replaceOp)]
                ELSE driver
         /\ compileState' =
              [compileState EXCEPT
                 !.pc = "replace",
                 !.reads = OperatorsRead(compileState.operators, operatorIndex),
                 !.removed =
                   IF replaceOp # <<>>
                     THEN @ \cup OperatorsRemoved(driver.operators, replacingOperatorIndex,
                                                  replacingOperatorIndex)
                     ELSE @,
                 !.operatorsOffset = compileState.operatorsOffset + Len(replaceOp),
                 !.replacementsMade =
                   ReplacementsMadeAfterFromVelox(compileState.replacementsMade, replaceOp)]
  /\ UNCHANGED <<functionRegistry, functionCalls, evaluatorRegistry, registered, call, expr,
                 isCudfRegistered, mr_, adapters, translators,
                 builder, vectors, threads>>

\* A wrong driver at the throw: the operator is replaced before the check.
DriverAtFailureReplaced(operators, begin, end, replaceOp) ==
  IF replaceOp # <<>> THEN replaceOperators(operators, begin, end, replaceOp) ELSE operators

\* The operators of the driver when VELOX_CHECK(condition, ...) throws: the
\* check stands before replaceOperators, which is not reached.
DriverAtFailure(operators, begin, end, replaceOp) == operators

\* The second half of an iteration: the replacement of the operator, the
\* to-velox adapter and the fallback check.
CompileReplace ==
  /\ compileState.pc = "replace"
  /\ LET operatorIndex == compileState.operatorIndex
         size == Len(compileState.operators)
         oper == compileState.operators[operatorIndex + 1]
         replacingOperatorIndex == operatorIndex + compileState.operatorsOffset
         r == Replacement(oper, evaluatorRegistry, functionRegistry)
         keepOperator == r.keepOperator
         replaceOp ==
           r.replaceOp \o
             (IF producesGpuOutput(oper, evaluatorRegistry, functionRegistry)
                 /\ \/ nextOperatorIsNotGpu(operatorIndex, compileState.isSupportedGpuOperators)
                    \/ isLastOperatorOfTask(operatorIndex, size, driver.outputDriver)
                THEN <<CudfOperator("CudfToVelox", oper.operatorId, oper.node)>>
                ELSE <<>>)
         condition == FallbackCondition(oper, replaceOp, keepOperator)
     IN  IF FallbackCheckFails(compileState.allowCpuFallback, condition)
           THEN /\ compileState' =
                     [compileState EXCEPT
                        !.pc = "failed",
                        !.reads = OperatorsRead(compileState.operators, operatorIndex),
                        !.error = "Replacement with cuDF operator failed"]
                /\ driver' =
                     [driver EXCEPT !.operators =
                        DriverAtFailure(driver.operators,
                                        ReplaceBegin(replacingOperatorIndex, keepOperator),
                                        replacingOperatorIndex + 1, replaceOp)]
           ELSE /\ driver' =
                     IF replaceOp # <<>>
                       THEN [driver EXCEPT !.operators =
                               replaceOperators(driver.operators,
                                                ReplaceBegin(replacingOperatorIndex, keepOperator),
                                                replacingOperatorIndex + 1, replaceOp)]
                       ELSE driver
                /\ compileState' =
                     [compileState EXCEPT
                        !.pc = "fromVelox",
                        !.reads = OperatorsRead(compileState.operators, operatorIndex),
                        !.removed =
                          IF replaceOp # <<>>
                            THEN @ \cup OperatorsRemoved(
                                          driver.operators,
                                          ReplaceBegin(replacingOperatorIndex, keepOperator),
                                          replacingOperatorIndex + 1)
                            ELSE @,
                        !.operatorIndex = operatorIndex + 1,
                        !.warnings = IF condition THEN @ ELSE @ + 1,
                        !.operatorsOffset =
                          IF replaceOp # <<>>
                            THEN NextOperatorsOffset(@, Len(replaceOp), keepOperator)
                            ELSE @,
                        !.replacementsMade = IF replaceOp # <<>> THEN TRUE ELSE @]
  /\ UNCHANGED <<functionRegistry, functionCalls, evaluatorRegistry, registered, call, expr,
                 isCudfRegistered, mr_, adapters, translators,
                 builder, vectors, threads>>

\* The end of the loop: compile returns replacementsMade.
CompileReturn ==
  /\ compileState.pc = "fromVelox"
  /\ compileState.operatorIndex = Len(compileState.operators)
  /\ compileState' = [compileState EXCEPT !.pc = "done", !.reads = {},
                                           !.ret = compileState.replacementsMade]
  /\ UNCHANGED <<functionRegistry, functionCalls, evaluatorRegistry, registered, call, expr,
                 driver,
                 isCudfRegistered, mr_, adapters, translators,
                 builder, vectors, threads>>

\* A driver as created from its pipeline, after registerBuiltinFunctions,
\* and a CompileState on it.
InitCompile ==
  /\ functionRegistry = registerBuiltinFunctions(EmptyMap, "")
  /\ functionCalls = <<>>
  /\ evaluatorRegistry = EmptyMap
  /\ registered = FALSE
  /\ call = NoCall
  /\ expr = NoExpr
  /\ NothingRegistered
  /\ NoBuilderNoThreads
  /\ \E n \in 1..MaxOperators :
       \E source \in SourceOperators, p \in [1..(n - 1) -> PipelineOperators],
          outputDriver \in BOOLEAN :
         driver = [operators |-> Pipeline(<<source>> \o p), outputDriver |-> outputDriver]
  /\ \E allowCpuFallback \in BOOLEAN :
       compileState = [pc |-> "begin", allowCpuFallback |-> allowCpuFallback,
                       operators |-> <<>>, isSupportedGpuOperators |-> <<>>,
                       operatorIndex |-> 0, operatorsOffset |-> 0,
                       replacementsMade |-> FALSE, ret |-> FALSE, error |-> "",
                       warnings |-> 0, reads |-> {}, removed |-> {}]

NextCompile ==
  \/ CompileBegin
  \/ CompileFromVelox
  \/ CompileReplace
  \/ CompileReturn

SpecCompile == InitCompile /\ [][NextCompile]_vars

(***************************************************************************)
(* Notions the claims about compile are stated with.                       *)
(***************************************************************************)
\* The operators of the pipeline before compile.
Original ==
  IF compileState.pc = "begin" THEN driver.operators ELSE compileState.operators

\* The operators of the driver that are not boundary adapters.
Core ==
  SelectSeq(driver.operators, LAMBDA o : o.kind \notin {"CudfFromVelox", "CudfToVelox"})

\* The evaluator registry compile sees.
CompileRegistry ==
  ensureBuiltinExpressionEvaluatorsRegistered(evaluatorRegistry, registered).registry

\* The accelerator-eligibility predicate on the original operator i.
Eligible(i) == isSupportedGpuOperator(Original[i], CompileRegistry, functionRegistry)

\* Every node of the plan expression rooted at node e is accepted by a
\* strategy.
PlanExprFeasible(e) ==
  \A n \in {e} \cup Descendants(PlanExprs, e) :
    \E name \in DOMAIN CompileRegistry :
      CanEvaluate(CompileRegistry[name].canEvaluate, functionRegistry, PlanExprs.label[n])

\* The original operator i is of a replaceable kind and its sub-check fails.
SubCheckFailed(i) ==
  LET op == Original[i]
  IN  \/ /\ op.kind = "FilterProject"
         /\ \/ op.node.project /\ \E k \in 1..Len(op.node.projections) :
                                    ~PlanExprFeasible(op.node.projections[k])
            \/ op.node.filter # 0 /\ ~PlanExprFeasible(op.node.filter)
      \/ /\ op.kind \in {"HashBuild", "HashProbe"}
         /\ \/ ~isSupportedJoinType(op.node.joinType)
            \/ op.node.joinType = "kAnti" /\ op.node.isNullAware /\ op.node.filter

\* compile is not stuck: it has returned, has thrown, or can take a step.
CompileProceeds ==
  compileState.pc \notin {"done", "failed"} => ENABLED NextCompile

\* The iteration of the original operator i is over.
Processed(i) == compileState.pc = "done" \/ compileState.operatorIndex > i - 1

(***************************************************************************)
(* C5: with allowCpuFallback = true compile never fails because an         *)
(* operator could not be converted: it always proceeds to its return, and  *)
(* every operator that is not accelerator-eligible stays in the driver     *)
(* unchanged, at its position among the operators that are not adapters.   *)
(***************************************************************************)
C5_FallbackAllowedNeverFails ==
  compileState.allowCpuFallback =>
    /\ compileState.pc # "failed"
    /\ CompileProceeds
    /\ Len(Core) = Len(Original)
    /\ \A i \in 1..Len(Original) : ~Eligible(i) => Core[i] = Original[i]

\* A finished compile with fallback allowed that rewrote an operator and
\* kept a FilterProject whose filter is not feasible.
C5_Witness ==
  /\ compileState.pc = "done"
  /\ compileState.allowCpuFallback
  /\ compileState.ret = TRUE
  /\ Len(Original) = 3
  /\ \E i \in 1..Len(Original) :
       ~Eligible(i) /\ Original[i].kind = "FilterProject" /\ Core[i] = Original[i]

(***************************************************************************)
(* C6, as stated: for every pipeline with at least one operator whose      *)
(* accelerator-eligibility predicate is false, compile with                *)
(* allowCpuFallback = false fails, so it never returns.                    *)
(***************************************************************************)
C6_AnyIneligibleOperatorFails ==
  (~compileState.allowCpuFallback /\ \E i \in 1..Len(Original) : ~Eligible(i)) =>
    compileState.pc # "done"

\* The ineligible operators other than Values and CallbackSink.
HardIneligible ==
  {i \in 1..Len(Original) :
     ~Eligible(i) /\ Original[i].kind \notin {"Values", "CallbackSink"}}

(***************************************************************************)
(* C6, amended: for every pipeline with at least one ineligible operator   *)
(* that is neither a Values nor a CallbackSink operator, compile with      *)
(* allowCpuFallback = false fails fatally, at the latest in the iteration  *)
(* of the first such operator, and compile of the identical pipeline with  *)
(* allowCpuFallback = true succeeds.                                       *)
(***************************************************************************)
C6_IneligibleOperatorFailsWithoutFallback ==
  HardIneligible # {} =>
    /\ ~compileState.allowCpuFallback =>
         /\ compileState.pc # "done"
         /\ compileState.operatorIndex <= SetMin(HardIneligible) - 1
         /\ compileState.pc = "failed" =>
              compileState.error = "Replacement with cuDF operator failed"
    /\ compileState.allowCpuFallback =>
         /\ compileState.pc # "failed"
         /\ compileState.pc \in {"begin", "fromVelox", "replace", "done"}

\* Without fallback, compile has passed a Values operator and replaced an
\* OrderBy, and has thrown at the TopN operator that follows them.
C6_Witness ==
  /\ compileState.pc = "failed"
  /\ ~compileState.allowCpuFallback
  /\ HardIneligible = {3}
  /\ Original[3].kind = "TopN"
  /\ Original[1].kind = "Values"
  /\ Core[2].kind = "CudfOrderBy"
  /\ compileState.operatorIndex = 2

(***************************************************************************)
(* C7: for an operator of a replaceable kind whose sub-check fails (a      *)
(* FilterProject with an infeasible projection or filter, a HashBuild or   *)
(* HashProbe of an unsupported join): with allowCpuFallback = false        *)
(* compile fails with 'Replacement with cuDF operator failed' and never    *)
(* gets past the operator; with allowCpuFallback = true the operator is    *)
(* retained in the driver and a fallback warning is logged for it.         *)
(***************************************************************************)
C7_SubCheckFailureFallsBackOrFails ==
  \A i \in 1..Len(Original) :
    SubCheckFailed(i) =>
      /\ ~compileState.allowCpuFallback =>
           /\ ~Processed(i)
           /\ compileState.pc = "failed" =>
                compileState.error = "Replacement with cuDF operator failed"
      /\ compileState.allowCpuFallback =>
           /\ compileState.pc # "failed"
           /\ Len(Core) = Len(Original) /\ Core[i] = Original[i]
           /\ Processed(i) =>
                compileState.warnings >=
                  Cardinality({j \in 1..i : SubCheckFailed(j)})

\* With fallback allowed, a null-aware anti join with a filter and a
\* FilterProject with an infeasible filter were both kept and warned about.
C7_Witness ==
  /\ compileState.pc = "done"
  /\ compileState.allowCpuFallback
  /\ Len(Original) = 3
  /\ Original[2].kind = "HashProbe" /\ SubCheckFailed(2)
  /\ Original[3].kind = "FilterProject" /\ SubCheckFailed(3)
  /\ compileState.warnings = 2
  /\ Core[2] = Original[2] /\ Core[3] = Original[3]

(***************************************************************************)
(* C8: a LocalPartition whose plan node uses round-robin partitioning      *)
(* (CudfLocalPartition::shouldReplace is false) is never replaced and      *)
(* stays in the driver; a LocalPartition for which shouldReplace is true   *)
(* is replaced, in its iteration, by exactly one CudfLocalPartition, and   *)
(* compile never fails at it.                                              *)
(***************************************************************************)
C8_RoundRobinLocalPartitionKept ==
  \A i \in 1..Len(Original) :
    Original[i].kind = "LocalPartition" =>
      LET op == Original[i]
          cudf == CudfOperator("CudfLocalPartition", op.operatorId, op.node)
          copies == {k \in 1..Len(driver.operators) : driver.operators[k] = cudf}
      IN  /\ Len(Core) = Len(Original)
          /\ IF shouldReplace(op.node)
               THEN /\ Processed(i) => (Core[i] = cudf /\ Cardinality(copies) = 1)
                    /\ ~Processed(i) => (Core[i] = op /\ copies = {})
                    /\ compileState.pc = "failed" => compileState.operatorIndex # i - 1
               ELSE Core[i] = op /\ copies = {}

\* A finished compile of a pipeline with a round-robin LocalPartition,
\* kept, after a hash LocalPartition, replaced.
C8_Witness ==
  /\ compileState.pc = "done"
  /\ Len(Original) = 3
  /\ Original[2].kind = "LocalPartition" /\ shouldReplace(Original[2].node)
  /\ Original[3].kind = "LocalPartition" /\ ~shouldReplace(Original[3].node)
  /\ Core[2].kind = "CudfLocalPartition"
  /\ Core[3] = Original[3]

(***************************************************************************)
(* C9: after compile of a pipeline of N operators the driver holds         *)
(* N + (from-velox adapters) + (to-velox adapters) operators: every        *)
(* original operator is either kept or replaced by exactly one accelerator *)
(* counterpart, in the original order, and at most one adapter stands      *)
(* before and at most one after each operator.                             *)
(***************************************************************************)
\* The accelerator counterpart of each operator kind.
Counterpart(kind) ==
  CASE kind = "HashBuild" -> "CudfHashJoinBuild"
    [] kind = "HashProbe" -> "CudfHashJoinProbe"
    [] kind = "OrderBy" -> "CudfOrderBy"
    [] kind = "HashAggregation" -> "CudfHashAggregation"
    [] kind = "FilterProject" -> "CudfFilterProject"
    [] kind = "Limit" -> "CudfLimit"
    [] kind = "LocalPartition" -> "CudfLocalPartition"
    [] kind = "AssignUniqueId" -> "CudfAssignUniqueId"
    [] OTHER -> "none"

AdaptersOf(kind) == {k \in 1..Len(driver.operators) : driver.operators[k].kind = kind}

C9_OperatorCountAfterCompile ==
  compileState.pc = "done" =>
    LET ops == driver.operators
        N == Len(Original)
    IN  /\ Len(ops) = N + Cardinality(AdaptersOf("CudfFromVelox"))
                        + Cardinality(AdaptersOf("CudfToVelox"))
        /\ Len(Core) = N
        /\ \A i \in 1..N :
             \/ Core[i] = Original[i]
             \/ Core[i] = CudfOperator(Counterpart(Original[i].kind),
                                       Original[i].operatorId, Original[i].node)
        /\ \A k \in AdaptersOf("CudfFromVelox") :
             /\ k < Len(ops)
             /\ ops[k + 1].kind \notin {"CudfFromVelox", "CudfToVelox"}
             /\ ops[k + 1].operatorId = ops[k].operatorId
        /\ \A k \in AdaptersOf("CudfToVelox") :
             /\ k > 1
             /\ ops[k - 1].kind \notin {"CudfFromVelox", "CudfToVelox"}
             /\ ops[k - 1].operatorId = ops[k].operatorId

\* Three operators became six: a kept table scan with a to-velox adapter,
\* a kept host operator, and an OrderBy replaced between two adapters.
C9_Witness ==
  /\ compileState.pc = "done"
  /\ Len(Original) = 3
  /\ Len(driver.operators) = 6
  /\ Original[1].kind = "TableScan"
  /\ Core[1] = Original[1]
  /\ Core[3].kind = "CudfOrderBy"

(***************************************************************************)
(* C10: compile returns true if and only if the driver's operator list was *)
(* changed (an adapter inserted or an operator replaced); it returns false *)
(* exactly when the list after compile is the one before.                  *)
(***************************************************************************)
C10_ReturnsWhetherChanged ==
  compileState.pc = "done" => (compileState.ret <=> driver.operators # Original)

\* The only change is a from-velox adapter before a kept round-robin
\* LocalPartition, and compile returns true.
C10_Witness ==
  /\ compileState.pc = "done"
  /\ compileState.ret = TRUE
  /\ Core = Original
  /\ Len(driver.operators) = Len(Original) + 1
  /\ AdaptersOf("CudfFromVelox") # {}

(***************************************************************************)
(* A second compile.  The operators compile puts into the driver are       *)
(* classes of their own (CudfOrderBy, CudfFromVelox, ...): none of the     *)
(* dynamic_casts to an exec:: operator class succeeds on them.             *)
(***************************************************************************)
\* A new CompileState on the driver a first compile has converted, and the
\* call of its compile.  call keeps what the first compile left.
CompileAgain ==
  /\ compileState.pc = "done"
  /\ call = NoCall
  /\ call' = [op |-> "compile", operators |-> driver.operators, ret |-> compileState.ret,
              original |-> compileState.operators]
  /\ \E allowCpuFallback \in BOOLEAN :
       compileState' = [pc |-> "begin", allowCpuFallback |-> allowCpuFallback,
                        operators |-> <<>>, isSupportedGpuOperators |-> <<>>,
                        operatorIndex |-> 0, operatorsOffset |-> 0,
                        replacementsMade |-> FALSE, ret |-> FALSE, error |-> "",
                        warnings |-> 0, reads |-> {}, removed |-> {}]
  /\ UNCHANGED <<functionRegistry, functionCalls, evaluatorRegistry, registered, expr, driver,
                 isCudfRegistered, mr_, adapters, translators,
                 builder, vectors, threads>>

NextCompileTwice ==
  \/ CompileBegin
  \/ CompileFromVelox
  \/ CompileReplace
  \/ CompileReturn
  \/ CompileAgain

SpecCompileTwice == InitCompile /\ [][NextCompileTwice]_vars

\* The second compile has returned.
SecondCompileDone == call # NoCall /\ compileState.pc = "done"

(***************************************************************************)
(* C11, as stated: compile is idempotent.  A second compile of a pipeline  *)
(* that a first compile converted leaves the operator sequence unchanged   *)
(* and returns false, also when a supported table scan, a local exchange   *)
(* or a round-robin local partition was kept next to accelerator           *)
(* operators.                                                              *)
(***************************************************************************)
C11_CompileIdempotent ==
  SecondCompileDone => (driver.operators = call.operators /\ compileState.ret = FALSE)

\* The second compile has put a to-velox adapter between a kept table scan
\* and the CudfOrderBy the first compile had put after it.
C11_Witness ==
  /\ SecondCompileDone
  /\ Len(call.original) = 2
  /\ call.operators[1].kind = "TableScan" /\ call.operators[2].kind = "CudfOrderBy"
  /\ Len(driver.operators) = Len(call.operators) + 1
  /\ driver.operators[2].kind = "CudfToVelox"
  /\ compileState.ret = TRUE

(***************************************************************************)
(* Notions the claims about the boundary adapters are stated with.         *)
(***************************************************************************)
\* The positions in the driver of the adapters of the given kind that were
\* made for the original operator i (an adapter carries its operator's id).
AdaptersFor(kind, i) ==
  {k \in 1..Len(driver.operators) :
     /\ driver.operators[k].kind = kind
     /\ driver.operators[k].operatorId = Original[i].operatorId}

\* The position in the driver of the original operator i or its counterpart.
PositionOf(i) ==
  CHOOSE k \in 1..Len(driver.operators) :
    /\ driver.operators[k].kind \notin {"CudfFromVelox", "CudfToVelox"}
    /\ driver.operators[k].operatorId = Original[i].operatorId

\* The from-velox step of the iteration of the original operator i is over.
FromVeloxDone(i) ==
  \/ Processed(i)
  \/ compileState.operatorIndex = i - 1 /\ compileState.pc \in {"replace", "failed"}

(***************************************************************************)
(* C12: for each operator, in original order, a CudfFromVelox adapter is   *)
(* inserted immediately before it if and only if the previous original     *)
(* operator is not accelerator-eligible and the operator accepts           *)
(* accelerator-resident input; in no other case is there a from-velox      *)
(* adapter.                                                                *)
(***************************************************************************)
C12_FromVeloxExactlyAtHostToGpuBoundary ==
  \A i \in 1..Len(Original) :
    LET wanted == /\ i > 1
                  /\ ~Eligible(i - 1)
                  /\ acceptsGpuInput(Original[i], CompileRegistry, functionRegistry)
    IN  IF FromVeloxDone(i) /\ wanted
          THEN AdaptersFor("CudfFromVelox", i) = {PositionOf(i) - 1}
          ELSE AdaptersFor("CudfFromVelox", i) = {}

\* After a Values operator an OrderBy got its from-velox adapter, and the
\* Limit after the OrderBy, which accepts accelerator input too, got none.
C12_Witness ==
  /\ compileState.pc = "done"
  /\ Len(Original) = 3
  /\ Original[1].kind = "Values" /\ Original[2].kind = "OrderBy"
  /\ Original[3].kind = "Limit"
  /\ AdaptersFor("CudfFromVelox", 2) = {2}
  /\ AdaptersFor("CudfFromVelox", 3) = {}
  /\ driver.operators[3].kind = "CudfOrderBy"

MaxRegistrations == 3

kCudfAdapterName == "cuDF"

\* Values of CudfConfig::getInstance() at a registerCudf call.
CudfConfigs ==
  [functionNamePrefix : {"", "cudf_"}, memoryResource : {"async", "pool"},
   allowCpuFallback : BOOLEAN, astExpressionEnabled : BOOLEAN,
   astExpressionPriority : {kFunctionPriority + 50}]

\* The globals setup and teardown work on.
Globals ==
  [isCudfRegistered |-> isCudfRegistered, mr_ |-> mr_, adapters |-> adapters,
   translators |-> translators, functionRegistry |-> functionRegistry,
   evaluatorRegistry |-> evaluatorRegistry]

\* exec::DriverAdapter{kCudfAdapterName, {}, CudfDriverAdapter{allowCpuFallback}}
CudfDriverAdapter(allowCpuFallback) ==
  [label |-> kCudfAdapterName, allowCpuFallback |-> allowCpuFallback]

\* registerAstEvaluator(priority): registers the strategy "ast", without
\* overwrite.
registerAstEvaluator(registry, priority) ==
  registerCudfExpressionEvaluator(
    registry, "ast",
    CudfExpressionEvaluatorEntry(priority, "acceptCalls", "acceptCalls", "createA"),
    FALSE).registry

\* A wrong registerCudf: without the early return.
registerCudfWithoutEarlyReturn(g, config) ==
  [isCudfRegistered |-> TRUE,
   mr_ |-> config.memoryResource,
   adapters |-> Append(g.adapters, CudfDriverAdapter(config.allowCpuFallback)),
   translators |-> g.translators + 1,
   functionRegistry |-> registerBuiltinFunctions(g.functionRegistry, config.functionNamePrefix),
   evaluatorRegistry |->
     IF config.astExpressionEnabled
       THEN registerAstEvaluator(g.evaluatorRegistry, config.astExpressionPriority)
       ELSE g.evaluatorRegistry]

\* registerCudf(): the globals after the call.
registerCudf(g, config) ==
  IF g.isCudfRegistered
    THEN g
    ELSE [isCudfRegistered |-> TRUE,
          mr_ |-> config.memoryResource,
          adapters |-> Append(g.adapters, CudfDriverAdapter(config.allowCpuFallback)),
          translators |-> g.translators + 1,
          functionRegistry |->
            registerBuiltinFunctions(g.functionRegistry, config.functionNamePrefix),
          evaluatorRegistry |->
            IF config.astExpressionEnabled
              THEN registerAstEvaluator(g.evaluatorRegistry, config.astExpressionPriority)
              ELSE g.evaluatorRegistry]

\* A wrong unregisterCudf: every adapter is erased.
unregisterCudfErasingAllAdapters(g) ==
  [g EXCEPT !.mr_ = "nullptr", !.adapters = <<>>, !.isCudfRegistered = FALSE]

\* unregisterCudf(): the globals after the call.
unregisterCudf(g) ==
  [g EXCEPT !.mr_ = "nullptr",
            !.adapters = SelectSeq(g.adapters, LAMBDA a : a.label # kCudfAdapterName),
            !.isCudfRegistered = FALSE]

\* The globals become g.
SetGlobals(g) ==
  /\ isCudfRegistered' = g.isCudfRegistered
  /\ mr_' = g.mr_
  /\ adapters' = g.adapters
  /\ translators' = g.translators
  /\ functionRegistry' = g.functionRegistry
  /\ evaluatorRegistry' = g.evaluatorRegistry

CallRegisterCudf ==
  /\ isCudfRegistered \/ translators < MaxRegistrations
  /\ \E config \in CudfConfigs :
       /\ SetGlobals(registerCudf(Globals, config))
       /\ call' = [op |-> "registerCudf", config |-> config, before |-> Globals]
  /\ UNCHANGED <<functionCalls, registered, expr, driver, compileState,
                 builder, vectors, threads>>

CallUnregisterCudf ==
  /\ SetGlobals(unregisterCudf(Globals))
  /\ call' = [op |-> "unregisterCudf", before |-> Globals]
  /\ UNCHANGED <<functionCalls, registered, expr, driver, compileState,
                 builder, vectors, threads>>

\* exec::DriverFactory::registerAdapter called by other code, with a label
\* of its own.
RegisterOtherAdapter ==
  /\ \A k \in 1..Len(adapters) : adapters[k].label # "other"
  /\ adapters' = Append(adapters, [label |-> "other", allowCpuFallback |-> FALSE])
  /\ call' = [op |-> "registerAdapter", before |-> Globals]
  /\ UNCHANGED <<functionRegistry, functionCalls, evaluatorRegistry, registered, expr, driver,
                 compileState, isCudfRegistered, mr_, translators,
                 builder, vectors, threads>>

InitLifecycle ==
  /\ functionRegistry = EmptyMap
  /\ functionCalls = <<>>
  /\ evaluatorRegistry = EmptyMap
  /\ registered = FALSE
  /\ call = NoCall
  /\ expr = NoExpr
  /\ driver = NoDriver
  /\ compileState = NoCompile
  /\ NothingRegistered
  /\ NoBuilderNoThreads

NextLifecycle ==
  \/ CallRegisterCudf
  \/ CallUnregisterCudf
  \/ RegisterOtherAdapter

SpecLifecycle == InitLifecycle /\ [][NextLifecycle]_vars

\* The positions of the adapters labelled 'cuDF' in a list of adapters.
CudfAdapters(list) == {k \in 1..Len(list) : list[k].label = kCudfAdapterName}

(***************************************************************************)
(* C16: after any sequence of registerCudf and unregisterCudf calls the    *)
(* number of driver adapters labelled 'cuDF' is 1 when cudfIsRegistered()  *)
(* is true and 0 when it is false, the device memory resource is held      *)
(* exactly when cudfIsRegistered() is true, and a registerCudf call made   *)
(* while registered changes nothing.                                       *)
(***************************************************************************)
C16_SetupIdempotent ==
  /\ Cardinality(CudfAdapters(adapters)) = IF isCudfRegistered THEN 1 ELSE 0
  /\ (mr_ # "nullptr") <=> isCudfRegistered
  /\ (call.op = "registerCudf" /\ call.before.isCudfRegistered) => Globals = call.before

\* registerCudf was called while registered, with another configuration
\* than the one of the setup in force, which is the second setup made.
C16_Witness ==
  /\ call.op = "registerCudf"
  /\ call.before.isCudfRegistered
  /\ translators = 2
  /\ mr_ # call.config.memoryResource
  /\ Len(adapters) = 2

(***************************************************************************)
(* C17: unregisterCudf releases the device memory resource, removes every  *)
(* driver adapter labelled 'cuDF' (and no other) and sets                  *)
(* cudfIsRegistered() to false; called when nothing is registered, or a    *)
(* second time, it leaves the state as one call does; and a registerCudf   *)
(* that follows makes a full setup again.                                  *)
(***************************************************************************)
C17_TeardownIdempotentAndReversible ==
  /\ call.op = "unregisterCudf" =>
       /\ mr_ = "nullptr"
       /\ CudfAdapters(adapters) = {}
       /\ adapters = SelectSeq(call.before.adapters, LAMBDA a : a.label # kCudfAdapterName)
       /\ ~isCudfRegistered
       /\ ~call.before.isCudfRegistered => Globals = call.before
       /\ unregisterCudf(Globals) = Globals
  /\ (call.op = "registerCudf" /\ ~call.before.isCudfRegistered) =>
       /\ isCudfRegistered
       /\ mr_ = call.config.memoryResource
       /\ Len(adapters) = Len(call.before.adapters) + 1
       /\ adapters[Len(adapters)] = CudfDriverAdapter(call.config.allowCpuFallback)
       /\ translators = call.before.translators + 1
       /\ \A k \in 1..Len(BuiltinFunctions) :
            call.config.functionNamePrefix \o BuiltinFunctions[k][1] \in DOMAIN functionRegistry
       /\ call.config.astExpressionEnabled => "ast" \in DOMAIN evaluatorRegistry

\* A teardown after the second setup: the adapter of other code is the
\* only one left.
C17_Witness ==
  /\ call.op = "unregisterCudf"
  /\ call.before.isCudfRegistered
  /\ translators = 2
  /\ Len(call.before.adapters) = 2
  /\ Len(adapters) = 1 /\ adapters[1].label = "other"

(***************************************************************************)
(* The expressions of a CudfFilterProject.  compile only constructs the    *)
(* operator; the operator compiles its expressions with                    *)
(* createCudfExpression when it is made ready to run.                      *)
(***************************************************************************)
\* The exec::Expr tree the engine compiles a plan expression into: a field
\* access becomes a FieldReference, a constant a ConstantExpr named
\* "literal", anything else an Expr of the same name, with the same inputs.
CompiledPlanExprs ==
  [label |->
     [i \in 1..Len(PlanExprs.label) |->
        LET l == PlanExprs.label[i]
        IN  CASE l.kind = "kFieldAccess" -> [kind |-> "FieldReference", name |-> l.name]
              [] l.kind = "kConstant" -> [kind |-> "ConstantExpr", name |-> "literal"]
              [] OTHER -> [kind |-> "Expr", name |-> l.name]],
   parent |-> PlanExprs.parent]

\* The plan expressions of a FilterProject operator: its projections, when
\* it has a ProjectNode, and its filter, when it has a FilterNode.
ExpressionsOf(op) ==
  (IF op.node.project THEN op.node.projections ELSE <<>>)
    \o (IF op.node.filter # 0 THEN <<op.node.filter>> ELSE <<>>)

\* The validation error createCudfExpression raises on the expressions of
\* the FilterProject operator op, or "".
ConstructionError(op, registry, fnRegistry) ==
  LET order == CHOOSE o \in IterationOrders(DOMAIN registry) : TRUE
      exprs == ExpressionsOf(op)
  IN  FirstError([k \in 1..Len(exprs) |->
                    createCudfExpression(registry, order, fnRegistry, CompiledPlanExprs,
                                         exprs[k], "nullopt")])

\* The original operator i is a FilterProject that passes the logical
\* feasibility check and has an expression whose compilation fails
\* validation.
FailsValidation(i) ==
  /\ Original[i].kind = "FilterProject"
  /\ isFilterProjectSupported(Original[i], CompileRegistry, functionRegistry)
  /\ ConstructionError(Original[i], CompileRegistry, functionRegistry) # ""

(***************************************************************************)
(* C18, as stated: a construction-time validation error in an expression   *)
(* of a FilterProject that passed the logical feasibility check is         *)
(* recovered when allowCpuFallback = true, where the host operator is      *)
(* retained and compile does not abort, and is fatal to compile when       *)
(* allowCpuFallback = false.                                               *)
(***************************************************************************)
C18_ValidationErrorRecoveredByFallback ==
  \A i \in 1..Len(Original) :
    FailsValidation(i) =>
      /\ compileState.allowCpuFallback =>
           /\ compileState.pc # "failed"
           /\ Processed(i) => Core[i] = Original[i]
      /\ ~compileState.allowCpuFallback => compileState.pc # "done"

\* With fallback allowed, compile has returned and has replaced, by a
\* CudfFilterProject, a FilterProject whose projection year() fails the
\* check of the YearFunction constructor.
C18_Witness ==
  /\ compileState.pc = "done"
  /\ compileState.allowCpuFallback
  /\ Len(Original) = 2
  /\ FailsValidation(2)
  /\ ConstructionError(Original[2], CompileRegistry, functionRegistry)
       = "year expects exactly 1 input column"
  /\ Core[2] = CudfOperator("CudfFilterProject", Original[2].operatorId, Original[2].node)

(***************************************************************************)
(* Compiled functions and their constants.  An int64_t is written as       *)
(* [hi, lo], the value hi * 2^31 + lo with 0 <= lo < 2^31; cudf::size_type *)
(* is a 32-bit signed integer.                                             *)
(***************************************************************************)
\* std::numeric_limits<cudf::size_type>::max() and ::min().
kMaxSizeType == 2147483647

kMinSizeType == (-kMaxSizeType) - 1

Int64(hi, lo) == [hi |-> hi, lo |-> lo]

\* The int64_t of a number n that is a size_type.
ToInt64(n) == IF n >= 0 THEN Int64(0, n) ELSE Int64(-1, (n + kMaxSizeType) + 1)

\* startValue >= 1
GreaterEqualOne(v) == v.hi > 0 \/ (v.hi = 0 /\ v.lo >= 1)

\* startValue - 1, for startValue >= 1.
MinusOne(v) == IF v.lo >= 1 THEN Int64(v.hi, v.lo - 1) ELSE Int64(v.hi - 1, kMaxSizeType)

\* The int64_t is the value of a size_type.
FitsSizeType(v) == v.hi \in {-1, 0}

\* static_cast<cudf::size_type>(v): the low 32 bits, as a signed number.
static_cast(v) == IF v.hi % 2 = 0 THEN v.lo ELSE (v.lo - kMaxSizeType) - 1

\* a + b of two size_type does not fit a size_type.
SumOverflows(a, b) ==
  \/ b > 0 /\ a > kMaxSizeType - b
  \/ b < 0 /\ a < kMinSizeType - b

\* a + b of two size_type: the sum, or, when it overflows, which the
\* language leaves undefined, the wrapped sum or either end of the range.
SizeTypeSum(a, b) ==
  IF ~SumOverflows(a, b) THEN {a + b}
  ELSE {IF b > 0 THEN ((a - kMaxSizeType) - 1) + ((b - kMaxSizeType) - 1)
                 ELSE ((a + kMaxSizeType) + 1) + ((b + kMaxSizeType) + 1),
        kMinSizeType, kMaxSizeType}

\* a + b of two int64_t that are small enough for the sum to be one.
Int64Sum(a, b) ==
  IF a.lo > kMaxSizeType - b.lo
    THEN Int64(a.hi + b.hi + 1, ((a.lo - kMaxSizeType) - 1) + b.lo)
    ELSE Int64(a.hi + b.hi, a.lo + b.lo)

\* The SubstrFunction objects the constructor can make of the call at node
\* i of tree t, whose checks have passed.
SubstrFunction(t, i) ==
  LET inputs == Inputs(t, i)
      startValue == t.label[inputs[2]].value
      adjustedStart == IF GreaterEqualOne(startValue)
                         THEN static_cast(MinusOne(startValue))
                         ELSE static_cast(startValue)
      endPositions ==
        IF Len(inputs) > 2
          THEN {[value |-> e, valid |-> TRUE] :
                  e \in SizeTypeSum(adjustedStart, static_cast(t.label[inputs[3]].value))}
          ELSE {[value |-> 0, valid |-> FALSE]}
  IN  {[class |-> "SubstrFunction",
        startScalar_ |-> [value |-> adjustedStart, valid |-> TRUE],
        endScalar_ |-> e,
        stepScalar_ |-> [value |-> 1, valid |-> TRUE]] : e \in endPositions}

\* The objects the factory of a class can make of the call at node i.
CudfFunctions(class, t, i) ==
  CASE class = "SubstrFunction" -> SubstrFunction(t, i)
    [] class = "BinaryFunction" ->
         LET c == ConstantOperands(t, Inputs(t, i)[1], Inputs(t, i)[2])
         IN  {[class |-> class,
               op_ |-> IF t.label[i].name = "divide" THEN "DIV" ELSE "GREATER",
               type_ |-> t.label[i].type, left_ |-> c.left_, right_ |-> c.right_]}
    [] class = "SwitchFunction" ->
         LET c == ConstantOperands(t, Inputs(t, i)[2], Inputs(t, i)[3])
         IN  {[class |-> class, left_ |-> c.left_, right_ |-> c.right_]}
    [] OTHER -> {[class |-> class]}

(***************************************************************************)
(* Creating, evaluating and closing one compiled expression.               *)
(***************************************************************************)
\* The most consecutive eval calls of a behaviour.
MaxEvals == 2

FieldLabel(name, type) == [kind |-> "FieldReference", name |-> name, type |-> type]

ConstantLabel(value) ==
  [kind |-> "ConstantExpr", name |-> "literal", value |-> value, type |-> "INT64"]

CallLabel(name, type) == [kind |-> "Expr", name |-> name, type |-> type]

\* The constant starts and lengths of the substr calls.
StartValues ==
  {ToInt64(n) : n \in {-5, -1, 0, 1, 2, 5, kMaxSizeType, kMinSizeType}}
    \cup {Int64(1, 0), Int64(1, 1), Int64(2, 0), Int64(2, 1), Int64(-2, kMaxSizeType)}

LengthValues ==
  {ToInt64(n) : n \in {-1, 0, 1, 3, kMaxSizeType}} \cup {Int64(1, 0), Int64(2, 3)}

\* The input row schema: the names and the cudf types of the columns.
inputRowSchema ==
  [names |-> <<"a", "b", "year", "p", "x", "literal">>,
   types |-> <<"STRING", "TIMESTAMP", "INT64", "BOOLEAN", "INT64", "STRING">>]

\* The expressions that are created and evaluated: substr calls on the
\* column a, with and without a length, substr calls that fail a check of
\* the constructor, and calls of other functions, nested calls, a field and
\* a call of a function that is not registered; comparisons, divisions
\* and switches on columns and constants; the column year has the name of
\* a registered function and the column literal that of the constants.
EvalTrees ==
  LET a == FieldLabel("a", "STRING")
      b == FieldLabel("b", "TIMESTAMP")
      substr == CallLabel("substr", "STRING")
      one == ConstantLabel(ToInt64(1))
      three == ConstantLabel(ToInt64(3))
      x == FieldLabel("x", "INT64")
      p == FieldLabel("p", "BOOLEAN")
      gt == CallLabel("greaterthan", "BOOLEAN")
      divide == CallLabel("divide", "INT64")
      switch == CallLabel("switch", "INT64")
      operands == {<<x, x>>, <<x, three>>, <<one, x>>, <<one, three>>}
  IN  {[label |-> <<substr, a, ConstantLabel(start)>>, parent |-> <<0, 1, 1>>] :
         start \in StartValues}
      \cup {[label |-> <<substr, a, ConstantLabel(start), ConstantLabel(length)>>,
             parent |-> <<0, 1, 1, 1>>] : start \in StartValues, length \in LengthValues}
      \cup {[label |-> <<f, o[1], o[2]>>, parent |-> <<0, 1, 1>>] :
              f \in {gt, divide}, o \in operands}
      \cup {[label |-> <<switch, p, o[1], o[2]>>, parent |-> <<0, 1, 1, 1>>] :
              o \in operands}
      \cup {[label |-> <<substr, a>>, parent |-> <<0, 1>>],
            [label |-> <<substr, a, one, three, three>>, parent |-> <<0, 1, 1, 1, 1>>],
            [label |-> <<substr, a, a>>, parent |-> <<0, 1, 1>>],
            [label |-> <<substr, a, one, a>>, parent |-> <<0, 1, 1, 1>>],
            [label |-> <<CallLabel("year", "INT64"), b>>, parent |-> <<0, 1>>],
            [label |-> <<CallLabel("length", "INT64"), a>>, parent |-> <<0, 1>>],
            [label |-> <<CallLabel("lower", "STRING"), a>>, parent |-> <<0, 1>>],
            [label |-> <<CallLabel("length", "INT32"), substr, a, one, three>>,
             parent |-> <<0, 1, 2, 2, 2>>],
            [label |-> <<substr, CallLabel("lower", "STRING"), a, three>>,
             parent |-> <<0, 1, 2, 1>>],
            [label |-> <<CallLabel("unknown", "STRING"), a>>, parent |-> <<0, 1>>],
            [label |-> <<FieldLabel("c", "STRING")>>, parent |-> <<0>>],
            [label |-> <<CallLabel("year", "INT64"), one>>, parent |-> <<0, 1>>],
            [label |-> <<divide, x>>, parent |-> <<0, 1>>],
            [label |-> <<switch, p, x>>, parent |-> <<0, 1, 1>>],
            [label |-> <<switch, x, x, x>>, parent |-> <<0, 1, 1, 1>>],
            [label |-> <<switch, [ConstantLabel(ToInt64(1)) EXCEPT !.type = "BOOLEAN"],
                         x, x>>,
             parent |-> <<0, 1, 1, 1>>],
            [label |-> <<switch, gt, x, one, CallLabel("year", "INT64"), b, three>>,
             parent |-> <<0, 1, 2, 2, 1, 5, 1>>],
            [label |-> <<CallLabel("lower", "STRING"), FieldLabel("literal", "STRING")>>,
             parent |-> <<0, 1>>],
            [label |-> <<FieldLabel("year", "INT64")>>, parent |-> <<0>>],
            [label |-> <<CallLabel("length", "INT64"), FieldLabel("year", "INT64")>>,
             parent |-> <<0, 1>>],
            [label |-> <<a>>, parent |-> <<0>>]}

\* The batches: one column for each name of the schema.
InputTableColumns ==
  {[j \in 1..Len(inputRowSchema.names) |-> [batch |-> k, column |-> j]] : k \in 1..2}

\* The nodes of a compiled tree that hold a function.
RECURSIVE FunctionNodes(_)
FunctionNodes(node) ==
  IF node.function = "nullptr" THEN {}
  ELSE {node.node} \cup
       UNION {FunctionNodes(node.subexpressions[k]) : k \in DOMAIN node.subexpressions}

\* The class of the function the compiled tree holds for expression node n.
RECURSIVE ClassAt(_, _)
ClassAt(node, n) ==
  IF node.node = n THEN node.function
  ELSE LET k == CHOOSE j \in DOMAIN node.subexpressions :
                  n \in FunctionNodes(node.subexpressions[j])
       IN  ClassAt(node.subexpressions[k], n)

\* The function objects the factories can have made for a compiled tree,
\* by the expression node they were made of.
FunctionObjects(t, node) ==
  {h \in [FunctionNodes(node) ->
            UNION {CudfFunctions(ClassAt(node, n), t, n) : n \in FunctionNodes(node)}] :
     \A n \in FunctionNodes(node) : h[n] \in CudfFunctions(ClassAt(node, n), t, n)}

\* A column, a view or a scalar was not obtained: an error was thrown, or
\* the behaviour is undefined.
Failed(column) == "error" \in DOMAIN column \/ "undefined" \in DOMAIN column

\* The first failure among a sequence of evaluations, if any.
RECURSIVE FirstFailure(_)
FirstFailure(evaluations) ==
  IF evaluations = <<>> THEN {}
  ELSE IF Failed(Head(evaluations).ret) THEN {Head(evaluations)}
  ELSE FirstFailure(Tail(evaluations))

\* The steps of a sequence of evaluations made one after the other, up to
\* the first that fails.
RECURSIVE StepsOf(_)
StepsOf(evaluations) ==
  IF evaluations = <<>> THEN <<>>
  ELSE IF Failed(Head(evaluations).ret) THEN Head(evaluations).steps
  ELSE Head(evaluations).steps \o StepsOf(Tail(evaluations))

\* CudfFunction::eval(inputColumns, stream, mr) of a function object: the
\* cudf call it makes, with the columns and scalars it passes and the type
\* of the column that returns.  Reading inputColumns[k] where the vector
\* has no such element is undefined.
CudfFunction_eval(function_, inputColumns) ==
  LET size == Len(inputColumns)
      arg(k) == inputColumns[k + 1]
      unary(name, type) ==
        IF size < 1 THEN [undefined |-> "inputColumns[0]"]
        ELSE [cudf |-> name, args |-> <<arg(0)>>, type |-> type]
      scalar(s) == CHOOSE x \in s : TRUE
  IN  CASE function_.class = "YearFunction" ->
             unary("datetime::extract_datetime_component", "INT16")
        [] function_.class = "LengthFunction" -> unary("strings::count_characters", "INT32")
        [] function_.class = "LowerFunction" -> unary("strings::to_lower", "STRING")
        [] function_.class = "SubstrFunction" ->
             IF size < 1 THEN [undefined |-> "inputColumns[0]"]
             ELSE [cudf |-> "strings::slice_strings",
                   args |-> <<arg(0), [scalar |-> function_.startScalar_],
                              [scalar |-> function_.endScalar_],
                              [scalar |-> function_.stepScalar_]>>,
                   type |-> "STRING"]
        [] function_.class = "BinaryFunction" ->
             IF function_.left_ = {} /\ function_.right_ = {}
               THEN IF size < 2 THEN [undefined |-> "inputColumns[1]"]
                    ELSE [cudf |-> "binary_operation", op |-> function_.op_,
                          args |-> <<arg(0), arg(1)>>, type |-> function_.type_]
             ELSE IF function_.left_ = {}
               THEN IF size < 1 THEN [undefined |-> "inputColumns[0]"]
                    ELSE [cudf |-> "binary_operation", op |-> function_.op_,
                          args |-> <<arg(0), scalar(function_.right_)>>,
                          type |-> function_.type_]
             ELSE IF size < 1 THEN [undefined |-> "inputColumns[0]"]
                  ELSE [cudf |-> "binary_operation", op |-> function_.op_,
                        args |-> <<scalar(function_.left_), arg(0)>>,
                        type |-> function_.type_]
        [] function_.class = "SwitchFunction" ->
             IF function_.left_ = {} /\ function_.right_ = {}
               THEN IF size < 3 THEN [undefined |-> "inputColumns[2]"]
                    ELSE [cudf |-> "copy_if_else", args |-> <<arg(1), arg(2), arg(0)>>,
                          type |-> arg(1).type]
             ELSE IF function_.left_ = {}
               THEN IF size < 2 THEN [undefined |-> "inputColumns[1]"]
                    ELSE [cudf |-> "copy_if_else",
                          args |-> <<arg(1), scalar(function_.right_), arg(0)>>,
                          type |-> arg(1).type]
             ELSE IF function_.right_ = {}
               THEN IF size < 2 THEN [undefined |-> "inputColumns[1]"]
                    ELSE [cudf |-> "copy_if_else",
                          args |-> <<scalar(function_.left_), arg(1), arg(0)>>,
                          type |-> scalar(function_.left_).scalar.type]
             ELSE IF size < 1 THEN [undefined |-> "inputColumns[0]"]
                  ELSE [cudf |-> "copy_if_else",
                        args |-> <<scalar(function_.left_), scalar(function_.right_), arg(0)>>,
                        type |-> scalar(function_.left_).scalar.type]

\* A wrong finalize of the subexpressions: they get the finalize of the
\* call.
FinalizeOfCall(finalize) == finalize

\* The finalize subexpr->eval(inputTableColumns, stream, mr) is called
\* with: the default of the parameter.
FinalizeOfSubexpression(finalize) == FALSE

\* FunctionExpression::eval of the node of the compiled expression on a
\* batch: ret, the column or view returned, the error thrown or the
\* undefined read, and steps, what was done in order: the view of a
\* field, the call of a function, the cast of a result, each with the
\* expression node it was done for.
RECURSIVE FunctionExpression_evalNode(_, _, _, _)
FunctionExpression_evalNode(compiled, node, inputTableColumns, finalize) ==
  LET expr_ == compiled.tree.label[node.node]
      columnIndex == CHOOSE k \in DOMAIN inputRowSchema.names :
                       inputRowSchema.names[k] = expr_.name
      evaluations ==
        [k \in DOMAIN node.subexpressions |->
           FunctionExpression_evalNode(compiled, node.subexpressions[k], inputTableColumns,
                                       FinalizeOfSubexpression(finalize))]
      inputColumns == [k \in DOMAIN evaluations |-> evaluations[k].ret]
      result == CudfFunction_eval(compiled.functions[node.node], inputColumns)
      called == StepsOf(evaluations) \o <<[node |-> node.node, step |-> "function"]>>
  IN  IF expr_.kind = "FieldReference"
        THEN IF \E k \in DOMAIN inputRowSchema.names : inputRowSchema.names[k] = expr_.name
               THEN [ret |-> [view |-> inputTableColumns[columnIndex],
                              type |-> inputRowSchema.types[columnIndex]],
                     steps |-> <<[node |-> node.node, step |-> "view"]>>]
               ELSE [ret |-> [error |-> "Field not found: " \o expr_.name], steps |-> <<>>]
      ELSE IF node.function # "nullptr"
        THEN IF FirstFailure(evaluations) # {}
               THEN [ret |-> (CHOOSE e \in FirstFailure(evaluations) : TRUE).ret,
                     steps |-> StepsOf(evaluations)]
             ELSE IF Failed(result)
               THEN [ret |-> result, steps |-> called]
             ELSE IF finalize /\ result.type # expr_.type
               THEN [ret |-> [cast |-> result, type |-> expr_.type],
                     steps |-> Append(called, [node |-> node.node, step |-> "cast"])]
             ELSE [ret |-> result, steps |-> called]
      ELSE [ret |-> [error |-> "Unsupported expression for recursive evaluation: "
                                 \o expr_.name],
            steps |-> <<>>]

\* What an eval can return, or end in, where the code's result is ret: an
\* undefined read past the end of inputColumns crashes or goes on with
\* whatever the memory holds.
OutcomesOf(ret) ==
  IF "undefined" \in DOMAIN ret
    THEN {[undefined |-> "crash"], [undefined |-> "garbage 1"], [undefined |-> "garbage 2"]}
    ELSE {ret}

\* FunctionExpression::eval on the root of a compiled expression: what it
\* returns, what it did, and the compiled expression after the call.
FunctionExpression_eval(compiled, inputTableColumns, finalize) ==
  [ret |-> FunctionExpression_evalNode(compiled, compiled.node, inputTableColumns,
                                       finalize).ret,
   steps |-> FunctionExpression_evalNode(compiled, compiled.node, inputTableColumns,
                                         finalize).steps,
   compiled |-> compiled]

\* FunctionExpression::close of the root: the compiled expression after it.
FunctionExpression_close(compiled) ==
  [compiled EXCEPT !.node = [@ EXCEPT !.function = "nullptr", !.subexpressions = <<>>],
                   !.functions = EmptyMap]

\* createCudfExpression(expr, inputRowSchema): expr becomes the compiled
\* expression, unless a constructor throws.
CreateExpression ==
  /\ expr.type = "Expr"
  /\ LET e == ensureBuiltinExpressionEvaluatorsRegistered(evaluatorRegistry, registered)
     IN  /\ evaluatorRegistry' = e.registry
         /\ registered' = e.registered
         /\ \E order \in IterationOrders(DOMAIN e.registry) :
              LET node == createCudfExpression(e.registry, order, functionRegistry,
                                               expr.tree, 1, "nullopt")
              IN  IF node.error # ""
                    THEN /\ call' = [op |-> "createCudfExpression", error |-> node.error]
                         /\ expr' = expr
                    ELSE /\ call' = [op |-> "createCudfExpression", error |-> ""]
                         /\ \E functions \in FunctionObjects(expr.tree, node) :
                              expr' = [type |-> "Compiled", tree |-> expr.tree,
                                       node |-> node, functions |-> functions,
                                       factoryCalls |-> Cardinality(DOMAIN functions)]
  /\ UNCHANGED <<functionRegistry, functionCalls, driver, compileState,
                 isCudfRegistered, mr_, adapters, translators,
                 builder, vectors, threads>>

\* The eval calls made since the last call that was not an eval.
EarlierEvals == IF call.op = "eval" THEN Append(call.earlier, call.eval) ELSE <<>>

\* The last eval ended the process.
Crashed == call.op = "eval" /\ call.eval.ret = [undefined |-> "crash"]

\* eval(inputTableColumns, stream, mr, finalize) on the compiled expression.
EvalExpression ==
  /\ expr.type = "Compiled"
  /\ ~Crashed
  /\ Len(EarlierEvals) < MaxEvals
  /\ \E inputTableColumns \in InputTableColumns, finalize \in BOOLEAN :
       LET e == FunctionExpression_eval(expr, inputTableColumns, finalize)
       IN  /\ \E ret \in OutcomesOf(e.ret) :
                call' = [op |-> "eval",
                         eval |-> [inputTableColumns |-> inputTableColumns,
                                   finalize |-> finalize, ret |-> ret, steps |-> e.steps],
                         earlier |-> EarlierEvals]
           /\ expr' = e.compiled
  /\ UNCHANGED <<functionRegistry, functionCalls, evaluatorRegistry, registered, driver,
                 compileState, isCudfRegistered, mr_, adapters, translators,
                 builder, vectors, threads>>

\* close() on the compiled expression.
CloseExpression ==
  /\ expr.type = "Compiled"
  /\ ~Crashed
  /\ expr' = FunctionExpression_close(expr)
  /\ call' = [op |-> "close"]
  /\ UNCHANGED <<functionRegistry, functionCalls, evaluatorRegistry, registered, driver,
                 compileState, isCudfRegistered, mr_, adapters, translators,
                 builder, vectors, threads>>

InitEval ==
  /\ functionRegistry = registerBuiltinFunctions(EmptyMap, "")
  /\ functionCalls = <<>>
  /\ registered = FALSE
  /\ evaluatorRegistry = EmptyMap
  /\ call = NoCall
  /\ expr \in {[type |-> "Expr", tree |-> t] : t \in EvalTrees}
  /\ driver = NoDriver
  /\ compileState = NoCompile
  /\ NothingRegistered
  /\ NoBuilderNoThreads

NextEval ==
  \/ CreateExpression
  \/ EvalExpression
  \/ CloseExpression

SpecEval == InitEval /\ [][NextEval]_vars

(***************************************************************************)
(* C19, as stated: evaluating a compiled expression never changes it:      *)
(* over an eval call the node, its function objects with their constants,  *)
(* its subexpressions and the number of factory calls stay what they were, *)
(* and of the eval calls made in a row those on the same batch with the    *)
(* same finalize return the same.                                          *)
(***************************************************************************)
C19_EvalNeverChangesCompiledExpression ==
  /\ [][call'.op = "eval" => expr' = expr]_vars
  /\ [](call.op = "eval" =>
          \A k \in DOMAIN call.earlier :
            (/\ call.earlier[k].inputTableColumns = call.eval.inputTableColumns
             /\ call.earlier[k].finalize = call.eval.finalize)
              => call.earlier[k].ret = call.eval.ret)

(***************************************************************************)
(* C19, the part on the objects: over an eval call the node, its function  *)
(* objects with their constants, its subexpressions and the number of      *)
(* factory calls stay what they were.                                      *)
(***************************************************************************)
C19_EvalLeavesCompiledExpression == [][call'.op = "eval" => expr' = expr]_vars

\* Two eval calls in a row on the same batch with the same finalize have
\* ended differently: the function read past the end of inputColumns.
C19_WitnessOfDifferentOutputs ==
  /\ call.op = "eval"
  /\ Len(call.earlier) = 1
  /\ call.earlier[1].inputTableColumns = call.eval.inputTableColumns
  /\ call.earlier[1].finalize = call.eval.finalize
  /\ call.earlier[1].ret # call.eval.ret
  /\ "undefined" \in DOMAIN call.eval.ret

\* Two eval calls in a row on the same batch of substr(lower(a), 3), which
\* holds two function objects, have returned the column of the
\* SubstrFunction.
C19_Witness ==
  /\ call.op = "eval"
  /\ Len(call.earlier) = 1
  /\ call.earlier[1].inputTableColumns = call.eval.inputTableColumns
  /\ call.earlier[1].finalize = call.eval.finalize
  /\ expr.type = "Compiled"
  /\ expr.factoryCalls = 2
  /\ "cudf" \in DOMAIN call.eval.ret
  /\ call.eval.ret.cudf = "strings::slice_strings"
  /\ call.eval.ret.args[2].scalar = expr.functions[1].startScalar_
  /\ expr.functions[1].class = "SubstrFunction"
  /\ expr.functions[1].startScalar_.value = 2

\* The root of the compiled expression is a substr call that holds its
\* SubstrFunction.
HoldsSubstrFunction ==
  /\ expr.type = "Compiled"
  /\ expr.tree.label[1].name = "substr"
  /\ 1 \in DOMAIN expr.functions

\* The constant start of the substr call at the root, and its constant
\* length when it has one.
StartOfSubstr == expr.tree.label[Inputs(expr.tree, 1)[2]].value

HasLength == Len(Inputs(expr.tree, 1)) > 2

LengthOfSubstr == expr.tree.label[Inputs(expr.tree, 1)[3]].value

(***************************************************************************)
(* C20, as stated: the SubstrFunction of a constant start s >= 1 slices    *)
(* from s - 1; with a constant length L its exclusive end is (s - 1) + L,  *)
(* without a length its end is unset; a start s <= 0 is passed through     *)
(* unchanged.                                                              *)
(***************************************************************************)
C20_SubstrIndexTranslation ==
  HoldsSubstrFunction =>
    LET f == expr.functions[1]
    IN  /\ f.startScalar_.valid
        /\ GreaterEqualOne(StartOfSubstr) =>
             /\ ToInt64(f.startScalar_.value) = MinusOne(StartOfSubstr)
             /\ HasLength =>
                  /\ f.endScalar_.valid
                  /\ ToInt64(f.endScalar_.value)
                       = Int64Sum(MinusOne(StartOfSubstr), LengthOfSubstr)
        /\ ~GreaterEqualOne(StartOfSubstr) =>
             ToInt64(f.startScalar_.value) = StartOfSubstr
        /\ ~HasLength => ~f.endScalar_.valid

(***************************************************************************)
(* C20, for the starts and lengths whose s - 1 (or s, when s <= 0), L and  *)
(* (s - 1) + L are values of cudf::size_type: the slice starts at s - 1    *)
(* (at s, when s <= 0), ends at (s - 1) + L when s >= 1 and there is a     *)
(* length, and has no end when there is none.                              *)
(***************************************************************************)
C20_SubstrIndexTranslationOfSizeTypes ==
  HoldsSubstrFunction =>
    LET f == expr.functions[1]
        start == IF GreaterEqualOne(StartOfSubstr)
                   THEN MinusOne(StartOfSubstr) ELSE StartOfSubstr
    IN  /\ f.startScalar_.valid
        /\ FitsSizeType(start) => ToInt64(f.startScalar_.value) = start
        /\ (/\ GreaterEqualOne(StartOfSubstr) /\ HasLength
            /\ FitsSizeType(start) /\ FitsSizeType(LengthOfSubstr)
            /\ FitsSizeType(Int64Sum(start, LengthOfSubstr))) =>
             /\ f.endScalar_.valid
             /\ ToInt64(f.endScalar_.value) = Int64Sum(start, LengthOfSubstr)
        /\ ~HasLength => ~f.endScalar_.valid

\* substr(a, 2, 2147483647) has been compiled: the start is 1 and the end,
\* 1 + 2147483647 computed in cudf::size_type, is not 2147483648.
C20_Witness ==
  /\ HoldsSubstrFunction
  /\ HasLength
  /\ StartOfSubstr = ToInt64(2)
  /\ LengthOfSubstr = ToInt64(kMaxSizeType)
  /\ expr.functions[1].startScalar_.value = 1
  /\ expr.functions[1].endScalar_.value = kMinSizeType

\* substr(a, 1, 3) has been compiled to the slice [0, 3).
C20_WitnessOfExample ==
  /\ HoldsSubstrFunction
  /\ HasLength
  /\ StartOfSubstr = ToInt64(1)
  /\ LengthOfSubstr = ToInt64(3)
  /\ expr.functions[1].startScalar_.value = 0
  /\ expr.functions[1].endScalar_.value = 3
  /\ expr.functions[1].endScalar_.valid

(***************************************************************************)
(* The statistics builders of the dwrf writer, as the test                 *)
(* TestStatisticsBuilderUtils.cpp drives them.  An optional is a set of at *)
(* most one value.                                                         *)
(***************************************************************************)
\* The most addValues calls on one builder.
MaxAdds == 2

\* size of the test's buffers.
kTestSize == 10

BuilderKinds ==
  {"StatisticsBuilder", "IntegerStatisticsBuilder", "BooleanStatisticsBuilder",
   "BinaryStatisticsBuilder"}

\* The value buffer each test fills for its builder, indexed from 0:
\* i + 1, true except at 6, a buffer that is not read, and i + 1 bytes 'a'.
TestValues(kind) ==
  CASE kind = "IntegerStatisticsBuilder" -> [i \in 0..(kTestSize - 1) |-> i + 1]
    [] kind = "BooleanStatisticsBuilder" -> [i \in 0..(kTestSize - 1) |-> i # 6]
    [] kind = "BinaryStatisticsBuilder" ->
         [i \in 0..(kTestSize - 1) |-> [k \in 1..(i + 1) |-> "a"]]
    [] OTHER -> [i \in 0..(kTestSize - 1) |-> FALSE]

\* makeFlatVector(pool, nulls, nullCount, length, values); nulls is the set
\* of the positions whose null bit is set.
makeFlatVector(nulls, length, values) ==
  [nulls |-> nulls, length |-> length, values |-> values]

\* makeFlatVectorNoNulls(pool, length, values)
makeFlatVectorNoNulls(length, values) == makeFlatVector({}, length, values)

\* The null buffers of the vectors: none, or one position set null (the
\* test sets position 3).
NullBuffers == {{}} \cup {{i} : i \in 0..(kTestSize - 1)}

\* A builder as constructed.
NewBuilder(kind) ==
  [kind |-> kind, valueCount_ |-> 0, hasNull_ |-> FALSE, sum_ |-> 0, min_ |-> {},
   max_ |-> {}, trueCount_ |-> 0, length_ |-> 0]

\* A wrong addValue: the null entries are counted as values too.
addValuesCountingNulls(b, vector, position) ==
  [b EXCEPT !.valueCount_ = @ + 1, !.hasNull_ = @ \/ position \in vector.nulls]

\* What addValues does to the builder for the entry at a position of the
\* vector: a null entry sets hasNull, another one is counted and enters
\* the statistics of the builder's kind.
addValue(b, vector, position) ==
  IF position \in vector.nulls
    THEN [b EXCEPT !.hasNull_ = TRUE]
    ELSE LET value == vector.values[position]
             counted == [b EXCEPT !.valueCount_ = @ + 1]
         IN  CASE b.kind = "IntegerStatisticsBuilder" ->
                    [counted EXCEPT
                       !.sum_ = @ + value,
                       !.min_ = IF @ = {} \/ \A m \in @ : value < m THEN {value} ELSE @,
                       !.max_ = IF @ = {} \/ \A m \in @ : value > m THEN {value} ELSE @]
               [] b.kind = "BooleanStatisticsBuilder" ->
                    [counted EXCEPT !.trueCount_ = @ + (IF value THEN 1 ELSE 0)]
               [] b.kind = "BinaryStatisticsBuilder" ->
                    [counted EXCEPT !.length_ = @ + Len(value)]
               [] OTHER -> counted

\* StatisticsBuilderUtils::addValues(builder, vector, Ranges::of(begin, end))
RECURSIVE addValues(_, _, _, _)
addValues(b, vector, begin, end) ==
  IF begin >= end THEN b
  ELSE addValues(addValue(b, vector, begin), vector, begin + 1, end)

\* builder.build(): the column statistics.
build(b) ==
  [numberOfValues |-> b.valueCount_, hasNull |-> b.hasNull_, sum |-> b.sum_,
   minimum |-> b.min_, maximum |-> b.max_, trueCount |-> b.trueCount_,
   totalLength |-> b.length_]

\* One more vector of the test's values is added to the builder.
AddValues ==
  /\ builder.kind # "none"
  /\ Len(vectors) < MaxAdds
  /\ \E nulls \in NullBuffers :
       LET vec == makeFlatVector(nulls, kTestSize, TestValues(builder.kind))
       IN  /\ builder' = addValues(builder, vec, 0, kTestSize)
           /\ vectors' = Append(vectors, vec)
           /\ call' = [op |-> "addValues"]
  /\ UNCHANGED <<functionRegistry, functionCalls, evaluatorRegistry, registered, expr,
                 driver, compileState, isCudfRegistered, mr_, adapters, translators,
                 threads>>

\* The test builds the statistics of the builder.
Build ==
  /\ builder.kind # "none"
  /\ call' = [op |-> "build", stats |-> build(builder)]
  /\ UNCHANGED <<functionRegistry, functionCalls, evaluatorRegistry, registered, expr,
                 driver, compileState, isCudfRegistered, mr_, adapters, translators,
                 builder, vectors, threads>>

InitStatistics ==
  /\ functionRegistry = EmptyMap
  /\ functionCalls = <<>>
  /\ evaluatorRegistry = EmptyMap
  /\ registered = FALSE
  /\ call = NoCall
  /\ expr = NoExpr
  /\ driver = NoDriver
  /\ compileState = NoCompile
  /\ NothingRegistered
  /\ builder \in {NewBuilder(kind) : kind \in BuilderKinds}
  /\ vectors = <<>>
  /\ threads = <<>>

NextStatistics ==
  \/ AddValues
  \/ Build

SpecStatistics == InitStatistics /\ [][NextStatistics]_vars

\* The non-null entries of the vectors added so far, in the order added.
RECURSIVE EntriesFrom(_, _)
EntriesFrom(vector, position) ==
  IF position >= vector.length THEN <<>>
  ELSE (IF position \in vector.nulls THEN <<>> ELSE <<vector.values[position]>>)
         \o EntriesFrom(vector, position + 1)

RECURSIVE EntriesOf(_)
EntriesOf(vs) ==
  IF vs = <<>> THEN <<>> ELSE EntriesFrom(Head(vs), 0) \o EntriesOf(Tail(vs))

\* The sum of a sequence of numbers.
RECURSIVE Total(_)
Total(numbers) == IF numbers = <<>> THEN 0 ELSE Head(numbers) + Total(Tail(numbers))

\* The statistics the test expects of a builder after its two calls, the
\* first without a null and the second with position 3 null.
TestVectors(kind) ==
  <<makeFlatVectorNoNulls(kTestSize, TestValues(kind)),
    makeFlatVector({3}, kTestSize, TestValues(kind))>>

(***************************************************************************)
(* C21: a statistics builder accumulates over the addValues calls made on  *)
(* it: the statistics built last have the number of non-null entries of    *)
(* all vectors added as number of values, hasNull exactly when a vector    *)
(* with a null was added, and sum, minimum, maximum, true count and total  *)
(* length taken over the non-null entries of all calls; after the test's   *)
(* calls they are the values the test expects (10, then 19).               *)
(***************************************************************************)
C21_StatisticsAccumulateOverCalls ==
  (call.op = "build") =>
    LET entries == EntriesOf(vectors)
        stats == call.stats
        values == {entries[k] : k \in DOMAIN entries}
    IN  /\ stats.numberOfValues = Len(entries)
        /\ stats.hasNull <=> \E k \in DOMAIN vectors : vectors[k].nulls # {}
        /\ builder.kind = "IntegerStatisticsBuilder" =>
             /\ stats.sum = Total(entries)
             /\ stats.minimum = IF values = {} THEN {} ELSE {SetMin(values)}
             /\ stats.maximum = IF values = {} THEN {} ELSE {SetMax(values)}
        /\ builder.kind = "BooleanStatisticsBuilder" =>
             stats.trueCount = Total([k \in DOMAIN entries |-> IF entries[k] THEN 1 ELSE 0])
        /\ builder.kind = "BinaryStatisticsBuilder" =>
             stats.totalLength = Total([k \in DOMAIN entries |-> Len(entries[k])])
        /\ vectors = <<TestVectors(builder.kind)[1]>> =>
             /\ stats.numberOfValues = 10
             /\ ~stats.hasNull
             /\ builder.kind = "IntegerStatisticsBuilder" =>
                  stats.sum = 55 /\ stats.minimum = {1} /\ stats.maximum = {10}
             /\ builder.kind = "BooleanStatisticsBuilder" => stats.trueCount = 9
             /\ builder.kind = "BinaryStatisticsBuilder" => stats.totalLength = 55
        /\ vectors = TestVectors(builder.kind) =>
             /\ stats.numberOfValues = 19
             /\ stats.hasNull
             /\ builder.kind = "IntegerStatisticsBuilder" =>
                  stats.sum = 106 /\ stats.minimum = {1} /\ stats.maximum = {10}
             /\ builder.kind = "BooleanStatisticsBuilder" => stats.trueCount = 17
             /\ builder.kind = "BinaryStatisticsBuilder" => stats.totalLength = 106

\* The integer test has made its two calls and built the statistics.
C21_Witness ==
  /\ call.op = "build"
  /\ builder.kind = "IntegerStatisticsBuilder"
  /\ vectors = TestVectors("IntegerStatisticsBuilder")
  /\ call.stats.numberOfValues = 19
  /\ call.stats.hasNull
  /\ call.stats.sum = 106

\* The root of the expression is not a field reference and its name has no
\* entry in the function registry.
UnregisteredRoot ==
  /\ expr.type \in {"Expr", "Compiled"}
  /\ expr.tree.label[1].kind # "FieldReference"
  /\ createCudfFunction(functionRegistry, expr.tree.label[1].name) = "nullptr"

(***************************************************************************)
(* C22, as stated: when the call name of a node that is not a field        *)
(* reference has no entry in the function registry, creating the node      *)
(* fails: the call reports an error and no compiled node is returned that  *)
(* fails only when it is evaluated.                                        *)
(***************************************************************************)
C22_UnregisteredCallFailsAtCreate ==
  UnregisteredRoot =>
    /\ expr.type # "Compiled"
    /\ call.op = "createCudfExpression" => call.error # ""

\* The call unknown(a) has been compiled without an error, to a node that
\* holds no function, and its eval has thrown.
C22_Witness ==
  /\ UnregisteredRoot
  /\ expr.type = "Compiled"
  /\ expr.node.function = "nullptr"
  /\ expr.node.error = ""
  /\ call.op = "eval"
  /\ call.eval.ret = [error |-> "Unsupported expression for recursive evaluation: unknown"]
  /\ call.eval.steps = <<>>

(***************************************************************************)
(* C23, as stated: creating a field reference always gives a node that is  *)
(* a plain field access, whatever the name of the field: no error is       *)
(* raised, and no function is looked up or made for it.                    *)
(***************************************************************************)
C23_FieldReferenceCompilesAsFieldAccess ==
  (/\ expr.type \in {"Expr", "Compiled"}
   /\ expr.tree.label[1].kind = "FieldReference"
   /\ call.op = "createCudfExpression") =>
    /\ call.error = ""
    /\ expr.type = "Compiled"
    /\ expr.node.function = "nullptr"
    /\ expr.factoryCalls = 0

\* Creating the reference to the column year has invoked the factory of
\* the function year, whose constructor has thrown; nothing was compiled.
C23_Witness ==
  /\ expr.type = "Expr"
  /\ expr.tree.label[1] = FieldLabel("year", "INT64")
  /\ createCudfFunction(functionRegistry, "year") = "YearFunction"
  /\ call.op = "createCudfExpression"
  /\ call.error = "year expects exactly 1 input column"

\* The nodes of a compiled tree.
RECURSIVE CompiledNodesOf(_)
CompiledNodesOf(node) ==
  {node} \cup
    IF "subexpressions" \in DOMAIN node
      THEN UNION {CompiledNodesOf(node.subexpressions[k]) : k \in DOMAIN node.subexpressions}
      ELSE {}

\* The inputs of node i of tree t that are not constants, in order.
InputsNotConstant(t, i) ==
  SelectSeq(Inputs(t, i), LAMBDA j : t.label[j].kind # "ConstantExpr")

\* The expression nodes the children of a compiled node were compiled of.
ChildrenOf(node) == [k \in DOMAIN node.subexpressions |-> node.subexpressions[k].node]

(***************************************************************************)
(* C24, as stated: a compiled node that holds a function has as children   *)
(* exactly the compiled inputs of its expression node that are not         *)
(* constants, in their order, and no constant is compiled as a node; a     *)
(* node without a function has no children.                                *)
(***************************************************************************)
C24_ChildrenAreTheInputsNotConstant ==
  expr.type = "Compiled" =>
    \A node \in CompiledNodesOf(expr.node) :
      /\ expr.tree.label[node.node].kind # "ConstantExpr"
      /\ "subexpressions" \in DOMAIN node =>
           IF node.function # "nullptr"
             THEN ChildrenOf(node) = InputsNotConstant(expr.tree, node.node)
             ELSE node.subexpressions = <<>>

\* lower(literal), on the column named literal, is compiled to a
\* LowerFunction without a child, and its eval has read inputColumns[0].
C24_Witness ==
  /\ expr.type = "Compiled"
  /\ expr.tree.label[1].name = "lower"
  /\ expr.tree.label[2] = FieldLabel("literal", "STRING")
  /\ expr.node.function = "LowerFunction"
  /\ expr.node.subexpressions = <<>>
  /\ call.op = "eval"
  /\ "undefined" \in DOMAIN call.eval.ret

\* Two inputs that are not constants are compiled in their order, and the
\* constants between them are not.
C24_WitnessOfOrder ==
  /\ expr.type = "Compiled"
  /\ expr.node.function = "SwitchFunction"
  /\ ChildrenOf(expr.node) = <<2, 5>>
  /\ ChildrenOf(expr.node.subexpressions[1]) = <<3>>
  /\ expr.tree.label[4].kind = "ConstantExpr"

\* The places among the steps of the last eval where the evaluation of
\* expression node n came to its result: the view of a field or the call of
\* a function.
ResultsOf(n) ==
  {q \in DOMAIN call.eval.steps :
     call.eval.steps[q].node = n /\ call.eval.steps[q].step \in {"view", "function"}}

(***************************************************************************)
(* C25: evaluation is post-order.  When the function of a node is applied, *)
(* every compiled child of the node has been evaluated exactly once, the   *)
(* children in their order, all before; a result is cast only at the root, *)
(* only in a call with finalize set, only after the function was applied   *)
(* and only when the type of the result is not the declared one, and with  *)
(* finalize set a result of another type is cast; a field reference        *)
(* returns the view of its column, never cast.                             *)
(***************************************************************************)
C25_EvalIsPostOrder ==
  call.op = "eval" =>
    LET steps == call.eval.steps
        ret == call.eval.ret
        root == expr.tree.label[1]
    IN  /\ \A node \in CompiledNodesOf(expr.node) :
             \A q \in ResultsOf(node.node) :
               steps[q].step = "function" =>
                 /\ ResultsOf(node.node) = {q}
                 /\ \A k \in DOMAIN node.subexpressions :
                      /\ Cardinality(ResultsOf(node.subexpressions[k].node)) = 1
                      /\ \A r \in ResultsOf(node.subexpressions[k].node) :
                           /\ r < q
                           /\ \A j \in 1..(k - 1) :
                                \A e \in ResultsOf(node.subexpressions[j].node) : e < r
        /\ \A q \in DOMAIN steps :
             steps[q].step = "cast" =>
               /\ steps[q].node = 1
               /\ call.eval.finalize
               /\ q = Len(steps)
               /\ q - 1 \in ResultsOf(1)
               /\ "cast" \in DOMAIN ret
               /\ ret.type = root.type
               /\ ret.cast.type # root.type
        /\ (call.eval.finalize /\ "cudf" \in DOMAIN ret) => ret.type = root.type
        /\ root.kind = "FieldReference" /\ ~Failed(ret) =>
             /\ steps = <<[node |-> 1, step |-> "view"]>>
             /\ \E k \in DOMAIN inputRowSchema.names :
                  /\ inputRowSchema.names[k] = root.name
                  /\ ret = [view |-> call.eval.inputTableColumns[k],
                            type |-> inputRowSchema.types[k]]

\* switch(greaterthan(x, 1), year(b), 3) was evaluated with finalize set:
\* x, then greaterthan, then b, then year, whose result of another type
\* than declared is not cast, then switch, whose result is cast.
C25_Witness ==
  /\ call.op = "eval"
  /\ call.eval.finalize
  /\ expr.tree.label[1].name = "switch"
  /\ call.eval.steps = <<[node |-> 3, step |-> "view"], [node |-> 2, step |-> "function"],
                         [node |-> 6, step |-> "view"], [node |-> 5, step |-> "function"],
                         [node |-> 1, step |-> "function"], [node |-> 1, step |-> "cast"]>>
  /\ call.eval.ret.cast.args[1].type = "INT16"
  /\ expr.tree.label[5].type = "INT64"

\* A field reference was evaluated with finalize set.
C25_WitnessOfField ==
  /\ call.op = "eval"
  /\ call.eval.finalize
  /\ expr.tree.label[1] = FieldLabel("a", "STRING")
  /\ "view" \in DOMAIN call.eval.ret

\* The root is a call of a binary function on two constants.
BinaryOfTwoLiterals ==
  /\ expr.tree.label[1].name \in {"greaterthan", "gt", "divide"}
  /\ Len(Inputs(expr.tree, 1)) = 2
  /\ \A k \in 1..2 : expr.tree.label[Inputs(expr.tree, 1)[k]].kind = "ConstantExpr"

(***************************************************************************)
(* C27, as stated: creating a binary function of two constants ends in the *)
(* error "Not support both left and right are literals", and a compiled    *)
(* binary function has at least one compiled operand.                      *)
(***************************************************************************)
C27_BinaryOfTwoLiteralsIsRejected ==
  /\ (call.op = "createCudfExpression" /\ BinaryOfTwoLiterals) =>
       call.error = "Not support both left and right are literals"
  /\ expr.type = "Compiled" =>
       \A node \in CompiledNodesOf(expr.node) :
         ("function" \in DOMAIN node /\ node.function = "BinaryFunction") =>
           node.subexpressions # <<>>

\* greaterthan(1, 3) was compiled: the function holds the left constant
\* only, has no compiled operand, and its eval has read inputColumns[0].
C27_Witness ==
  /\ expr.type = "Compiled"
  /\ BinaryOfTwoLiterals
  /\ expr.node.function = "BinaryFunction"
  /\ expr.node.subexpressions = <<>>
  /\ expr.functions[1].left_ # {}
  /\ expr.functions[1].right_ = {}
  /\ call.op = "eval"
  /\ "undefined" \in DOMAIN call.eval.ret

\* The root is a compiled switch that holds its SwitchFunction.
HoldsSwitchFunction ==
  /\ expr.type = "Compiled"
  /\ 1 \in DOMAIN expr.functions
  /\ expr.functions[1].class = "SwitchFunction"

\* Input k of the switch at the root is a constant.
IsConstantInput(k) == expr.tree.label[Inputs(expr.tree, 1)[k]].kind = "ConstantExpr"

\* What the switch at the root is to select from for its input k on a
\* batch: the scalar of a constant, or the column its compiled child
\* evaluates to.
BranchOf(k, inputTableColumns) ==
  IF IsConstantInput(k)
    THEN [scalar |-> expr.tree.label[Inputs(expr.tree, 1)[k]]]
    ELSE LET child == CHOOSE c \in DOMAIN expr.node.subexpressions :
                        expr.node.subexpressions[c].node = Inputs(expr.tree, 1)[k]
         IN  FunctionExpression_evalNode(expr, expr.node.subexpressions[child],
                                         inputTableColumns, FALSE).ret

\* The column the last eval returned, before a cast.
ReturnedOfFunction ==
  IF "cast" \in DOMAIN call.eval.ret THEN call.eval.ret.cast ELSE call.eval.ret

\* The eval of the switch at the root selected between its second and its
\* third input by its first.
SelectsBetweenBranches ==
  /\ "cudf" \in DOMAIN ReturnedOfFunction
  /\ ReturnedOfFunction.cudf = "copy_if_else"
  /\ ReturnedOfFunction.args = <<BranchOf(2, call.eval.inputTableColumns),
                                 BranchOf(3, call.eval.inputTableColumns),
                                 BranchOf(1, call.eval.inputTableColumns)>>

(***************************************************************************)
(* C28, as stated: a switch (on a condition that is not a constant) of two *)
(* constant branches holds both as scalars and its eval selects between    *)
(* the two scalars by the condition column alone; with one constant branch *)
(* or none the other branches are the columns of the compiled children     *)
(* that follow the condition.                                              *)
(***************************************************************************)
C28_SwitchOfUpToTwoConstantBranches ==
  (HoldsSwitchFunction /\ ~IsConstantInput(1)) =>
    /\ \A k \in 2..3 :
         IsConstantInput(k) =>
           [scalar |-> expr.tree.label[Inputs(expr.tree, 1)[k]]]
             \in (IF k = 2 THEN expr.functions[1].left_ ELSE expr.functions[1].right_)
    /\ ChildrenOf(expr.node)
         = SelectSeq(Inputs(expr.tree, 1), LAMBDA j : expr.tree.label[j].kind # "ConstantExpr")
    /\ call.op = "eval" => SelectsBetweenBranches

(***************************************************************************)
(* C28, with one constant branch or none and a condition that is not a     *)
(* constant: the constant is held as a scalar and eval selects between the *)
(* scalar and the columns of the compiled children that follow the         *)
(* condition.                                                              *)
(***************************************************************************)
C28_SwitchOfOneConstantBranch ==
  (/\ HoldsSwitchFunction
   /\ ~IsConstantInput(1)
   /\ ~(IsConstantInput(2) /\ IsConstantInput(3))) =>
    /\ \A k \in 2..3 :
         IsConstantInput(k) =>
           [scalar |-> expr.tree.label[Inputs(expr.tree, 1)[k]]]
             \in (IF k = 2 THEN expr.functions[1].left_ ELSE expr.functions[1].right_)
    /\ call.op = "eval" => SelectsBetweenBranches

\* switch(p, 1, 3) was compiled: the function holds the scalar of 1 alone,
\* the condition is its only compiled child, and its eval has read
\* inputColumns[1].
C28_Witness ==
  /\ HoldsSwitchFunction
  /\ IsConstantInput(2)
  /\ IsConstantInput(3)
  /\ expr.functions[1].left_ # {}
  /\ expr.functions[1].right_ = {}
  /\ ChildrenOf(expr.node) = <<2>>
  /\ call.op = "eval"
  /\ "undefined" \in DOMAIN call.eval.ret

\* switch(p, x, 3) and switch(p, 1, x) were evaluated.
C28_WitnessOfOneConstant ==
  /\ HoldsSwitchFunction
  /\ IsConstantInput(3)
  /\ ~IsConstantInput(2)
  /\ call.op = "eval"
  /\ SelectsBetweenBranches
  /\ ReturnedOfFunction.args[1].type = "INT64"

\* The original operator i is a HashBuild or a HashProbe that compile has
\* dealt with.
JoinProcessed(i) ==
  /\ compileState.pc \in {"fromVelox", "replace", "done"}
  /\ Processed(i)
  /\ Original[i].kind \in {"HashBuild", "HashProbe"}

\* The eligibility of a hash join operator.
JoinEligible(op) ==
  /\ op.node.type = "HashJoinNode"
  /\ isSupportedJoinType(op.node.joinType)
  /\ ~(op.node.joinType = "kAnti" /\ op.node.isNullAware /\ op.node.filter)

(***************************************************************************)
(* C26: a HashBuild or HashProbe is eligible exactly when its plan node is *)
(* a hash join node of a supported join type that is not a null-aware anti *)
(* join with a filter; compile replaces every eligible HashBuild by a      *)
(* CudfHashJoinBuild and every eligible HashProbe by a CudfHashJoinProbe   *)
(* on the same plan node, and keeps the others.                            *)
(***************************************************************************)
C26_EligibleJoinsAreReplaced ==
  \A i \in 1..Len(Original) :
    JoinProcessed(i) =>
      /\ compileState.isSupportedGpuOperators[i] = JoinEligible(Original[i])
      /\ Len(Core) = Len(Original)
      /\ IF JoinEligible(Original[i])
           THEN Core[i] = [Original[i] EXCEPT
                             !.kind = IF @ = "HashBuild" THEN "CudfHashJoinBuild"
                                                         ELSE "CudfHashJoinProbe"]
           ELSE Core[i] = Original[i]

\* compile has replaced an anti join probe that is null-aware without a
\* filter and kept one that is null-aware with a filter.
C26_Witness ==
  /\ compileState.pc = "done"
  /\ Len(Original) = 3
  /\ Original[2].kind = "HashProbe"
  /\ Original[2].node = HashJoinNode("kAnti", TRUE, FALSE)
  /\ Core[2].kind = "CudfHashJoinProbe"
  /\ Original[3].kind = "HashProbe"
  /\ Original[3].node = HashJoinNode("kAnti", TRUE, TRUE)
  /\ Core[3].kind = "HashProbe"

\* compile has replaced a HashBuild and kept one of a join type that is
\* not supported.
C26_WitnessOfBuild ==
  /\ compileState.pc = "done"
  /\ Len(Original) = 3
  /\ Original[2] = [operatorId |-> 1, kind |-> "HashBuild",
                    node |-> HashJoinNode("kInner", FALSE, FALSE)]
  /\ Core[2].kind = "CudfHashJoinBuild"
  /\ Original[3].node = HashJoinNode("kFull", FALSE, FALSE)
  /\ Core[3] = Original[3]

\* The operator is a boundary adapter.
IsAdapter(op) == op.kind \in {"CudfFromVelox", "CudfToVelox"}

\* The driver position, counted from 0, that operatorIndex + operatorsOffset
\* addresses.
replacingOperatorIndex == compileState.operatorIndex + compileState.operatorsOffset

\* The operators of the driver from position begin, counted from 0.
OperatorsFrom(begin) ==
  [k \in 1..(Len(driver.operators) - begin) |-> driver.operators[begin + k]]

\* The original operators from index begin, counted from 0.
OriginalFrom(begin) == [k \in 1..(Len(Original) - begin) |-> Original[begin + k]]

\* The driver is, for each original operator in order, an optional
\* from-velox adapter, the operator or its one counterpart, and an optional
\* to-velox adapter.
IsConcatenationOfGroups ==
  /\ Len(Core) = Len(Original)
  /\ \A i \in 1..Len(Original) :
       \/ Core[i] = Original[i]
       \/ /\ Counterpart(Original[i].kind) # "none"
          /\ Core[i] = [Original[i] EXCEPT !.kind = Counterpart(@)]
  /\ \A k \in 1..Len(driver.operators) :
       /\ driver.operators[k].kind = "CudfFromVelox" =>
            /\ k < Len(driver.operators)
            /\ ~IsAdapter(driver.operators[k + 1])
            /\ driver.operators[k + 1].operatorId = driver.operators[k].operatorId
       /\ driver.operators[k].kind = "CudfToVelox" =>
            /\ k > 1
            /\ ~IsAdapter(driver.operators[k - 1])
            /\ driver.operators[k - 1].operatorId = driver.operators[k].operatorId

(***************************************************************************)
(* C30: in every iteration of compile operatorIndex + operatorsOffset      *)
(* addresses the driver position that holds the original operator of the   *)
(* iteration, before the from-velox adapter is inserted and, computed       *)
(* again, when the operator is replaced, and the original operators that   *)
(* follow stand behind it untouched; the driver is at every step, and when  *)
(* compile returns, the concatenation over the original operators in order *)
(* of an optional from-velox adapter, the operator or its one counterpart  *)
(* and an optional to-velox adapter.                                       *)
(***************************************************************************)
C30_IndexBookkeeping ==
  compileState.pc \in {"fromVelox", "replace", "done"} =>
    /\ IsConcatenationOfGroups
    /\ compileState.pc \in {"fromVelox", "replace"} =>
         /\ replacingOperatorIndex >= compileState.operatorIndex
         /\ OperatorsFrom(replacingOperatorIndex) = OriginalFrom(compileState.operatorIndex)
         /\ \A k \in 1..replacingOperatorIndex :
              /\ driver.operators[k].operatorId < compileState.operatorIndex
                   \/ (/\ k = replacingOperatorIndex
                       /\ compileState.pc = "replace"
                       /\ driver.operators[k].kind = "CudfFromVelox")
    /\ compileState.pc = "done" =>
         Len(driver.operators) = Len(Original) + compileState.operatorsOffset

\* compile has returned on a driver of three operators that now has six:
\* the offset has counted three adapters, and an operator was replaced.
C30_Witness ==
  /\ compileState.pc = "done"
  /\ Len(Original) = 3
  /\ compileState.operatorsOffset = 3
  /\ Len(driver.operators) = 6
  /\ \E i \in 1..3 : Core[i] # Original[i]

\* In the iteration of the third operator a from-velox adapter was
\* inserted after an operator was kept with a to-velox adapter behind it, and
\* the index addresses the third operator.
C30_WitnessOfIteration ==
  /\ compileState.pc = "replace"
  /\ compileState.operatorIndex = 2
  /\ compileState.operatorsOffset = 2
  /\ driver.operators[1].kind = "TableScan"
  /\ driver.operators[2].kind = "CudfToVelox"
  /\ driver.operators[4].kind = "CudfFromVelox"
  /\ driver.operators[5] = Original[3]

(***************************************************************************)
(* Threads that call registerCudf(), one action per statement of the call. *)
(* The callers either serialize their calls or do not.                     *)
(***************************************************************************)
\* The threads, and the most calls one of them makes.
NumThreads == 2

MaxThreadCalls == 2

\* A wrong cudfIsRegistered: it never says yes.
cudfIsRegisteredNever(flag) == FALSE

\* cudfIsRegistered()
cudfIsRegistered(flag) == flag

\* Thread t is inside registerCudf().
InRegisterCudf(t) == threads[t].pc # "idle"

\* Thread t goes on to the statement at pc.
Goto(t, pc) == threads' = [threads EXCEPT ![t].pc = pc]

\* What the thread steps leave alone.
ThreadFrame ==
  UNCHANGED <<functionCalls, registered, call, expr, driver, compileState, builder, vectors>>

\* Thread t calls registerCudf(); callers that serialize wait for the call
\* of another thread to return.
ThreadCall(t) ==
  /\ threads[t].pc = "idle"
  /\ threads[t].calls < MaxThreadCalls
  /\ threads[t].serialized => \A u \in DOMAIN threads : ~InRegisterCudf(u)
  /\ threads' = [threads EXCEPT ![t].pc = "check", ![t].calls = @ + 1]
  /\ UNCHANGED <<functionRegistry, evaluatorRegistry, isCudfRegistered, mr_, adapters,
                 translators>>
  /\ ThreadFrame

\* if (cudfIsRegistered()) return;
ThreadCheck(t) ==
  /\ threads[t].pc = "check"
  /\ threads' =
       [threads EXCEPT
          ![t].pc = IF cudfIsRegistered(isCudfRegistered)
                      THEN "idle" ELSE "registerBuiltinFunctions",
          ![t].passes = IF isCudfRegistered THEN @ ELSE @ + 1]
  /\ UNCHANGED <<functionRegistry, evaluatorRegistry, isCudfRegistered, mr_, adapters,
                 translators>>
  /\ ThreadFrame

\* registerBuiltinFunctions(CudfConfig::getInstance().functionNamePrefix);
ThreadRegisterBuiltinFunctions(t) ==
  /\ threads[t].pc = "registerBuiltinFunctions"
  /\ functionRegistry' =
       registerBuiltinFunctions(functionRegistry, threads[t].config.functionNamePrefix)
  /\ Goto(t, "setResource")
  /\ UNCHANGED <<evaluatorRegistry, isCudfRegistered, mr_, adapters, translators>>
  /\ ThreadFrame

\* mr_ = mr;
ThreadSetResource(t) ==
  /\ threads[t].pc = "setResource"
  /\ mr_' = threads[t].config.memoryResource
  /\ Goto(t, "registerOperator")
  /\ UNCHANGED <<functionRegistry, evaluatorRegistry, isCudfRegistered, adapters,
                 translators>>
  /\ ThreadFrame

\* exec::Operator::registerOperator(...);
ThreadRegisterOperator(t) ==
  /\ threads[t].pc = "registerOperator"
  /\ translators' = translators + 1
  /\ Goto(t, "registerAdapter")
  /\ UNCHANGED <<functionRegistry, evaluatorRegistry, isCudfRegistered, mr_, adapters>>
  /\ ThreadFrame

\* exec::DriverFactory::registerAdapter(cudfAdapter);
ThreadRegisterAdapter(t) ==
  /\ threads[t].pc = "registerAdapter"
  /\ adapters' = Append(adapters, CudfDriverAdapter(threads[t].config.allowCpuFallback))
  /\ Goto(t, "registerAstEvaluator")
  /\ UNCHANGED <<functionRegistry, evaluatorRegistry, isCudfRegistered, mr_, translators>>
  /\ ThreadFrame

\* registerAdapter of two threads at the same time: the writes to the
\* vector race, and one of the two adapters can be lost.
ThreadsRegisterAdapter(t, u) ==
  /\ t # u
  /\ threads[t].pc = "registerAdapter"
  /\ threads[u].pc = "registerAdapter"
  /\ adapters' = Append(adapters, CudfDriverAdapter(threads[t].config.allowCpuFallback))
  /\ threads' = [threads EXCEPT ![t].pc = "registerAstEvaluator",
                                ![u].pc = "registerAstEvaluator"]
  /\ UNCHANGED <<functionRegistry, evaluatorRegistry, isCudfRegistered, mr_, translators>>
  /\ ThreadFrame

\* if (astExpressionEnabled) registerAstEvaluator(astExpressionPriority);
ThreadRegisterAstEvaluator(t) ==
  /\ threads[t].pc = "registerAstEvaluator"
  /\ evaluatorRegistry' =
       IF threads[t].config.astExpressionEnabled
         THEN registerAstEvaluator(evaluatorRegistry, threads[t].config.astExpressionPriority)
         ELSE evaluatorRegistry
  /\ Goto(t, "setFlag")
  /\ UNCHANGED <<functionRegistry, isCudfRegistered, mr_, adapters, translators>>
  /\ ThreadFrame

\* isCudfRegistered = true;
ThreadSetFlag(t) ==
  /\ threads[t].pc = "setFlag"
  /\ isCudfRegistered' = TRUE
  /\ Goto(t, "idle")
  /\ UNCHANGED <<functionRegistry, evaluatorRegistry, mr_, adapters, translators>>
  /\ ThreadFrame

\* Nothing is registered, and the threads have not called yet.
InitThreads ==
  /\ functionRegistry = EmptyMap
  /\ functionCalls = <<>>
  /\ evaluatorRegistry = EmptyMap
  /\ registered = FALSE
  /\ call = NoCall
  /\ expr = NoExpr
  /\ driver = NoDriver
  /\ compileState = NoCompile
  /\ NothingRegistered
  /\ builder = [kind |-> "none"]
  /\ vectors = <<>>
  /\ \E config \in CudfConfigs, serialized \in BOOLEAN :
       threads = [t \in 1..NumThreads |->
                    [pc |-> "idle", calls |-> 0, passes |-> 0,
                     serialized |-> serialized, config |-> config]]

NextThreads ==
  \/ \E t \in DOMAIN threads : ThreadCall(t)
  \/ \E t \in DOMAIN threads : ThreadCheck(t)
  \/ \E t \in DOMAIN threads : ThreadRegisterBuiltinFunctions(t)
  \/ \E t \in DOMAIN threads : ThreadSetResource(t)
  \/ \E t \in DOMAIN threads : ThreadRegisterOperator(t)
  \/ \E t \in DOMAIN threads : ThreadRegisterAdapter(t)
  \/ \E t, u \in DOMAIN threads : ThreadsRegisterAdapter(t, u)
  \/ \E t \in DOMAIN threads : ThreadRegisterAstEvaluator(t)
  \/ \E t \in DOMAIN threads : ThreadSetFlag(t)

SpecThreads == InitThreads /\ [][NextThreads]_vars

\* The callers serialize their calls of registerCudf().
Serialized == \A t \in DOMAIN threads : threads[t].serialized

\* The number of checks that found the flag not set.
PassedCheck == Total([t \in DOMAIN threads |-> threads[t].passes])

(***************************************************************************)
(* C29: with callers that serialize their calls of registerCudf() at most  *)
(* one adapter labelled cuDF is ever registered; more than one is          *)
(* registered only by threads that do not serialize, and only as many as   *)
(* checks have found the flag not set, each before any thread set it.      *)
(***************************************************************************)
C29_TwoAdaptersOnlyWithoutSerialization ==
  /\ Serialized => Cardinality(CudfAdapters(adapters)) <= 1
  /\ Cardinality(CudfAdapters(adapters)) <= PassedCheck
  /\ PassedCheck > 1 => ~Serialized

\* Two threads that do not serialize have both found the flag not set, and
\* both calls have returned: two adapters labelled cuDF are registered.
C29_Witness ==
  /\ ~Serialized
  /\ \A t \in DOMAIN threads : threads[t].passes = 1
  /\ \A t \in DOMAIN threads : threads[t].pc = "idle"
  /\ isCudfRegistered
  /\ Cardinality(CudfAdapters(adapters)) = 2
  /\ translators = 2

\* Two threads that serialize have both called: the second call returned at
\* the check, and one adapter labelled cuDF is registered.
C29_WitnessOfSerialized ==
  /\ Serialized
  /\ \A t \in DOMAIN threads : threads[t].pc = "idle" /\ threads[t].calls > 0
  /\ PassedCheck = 1
  /\ Cardinality(CudfAdapters(adapters)) = 1

\* The classification of the operators of the snapshot, made before the
\* loop.
ClassificationOfOriginal ==
  [i \in 1..Len(Original) |->
     isSupportedGpuOperator(Original[i], CompileRegistry, functionRegistry)]

(***************************************************************************)
(* C31: compile never uses an operator after it was removed from the       *)
(* pipeline.  No step reads an operator of the snapshot that an earlier    *)
(* step has taken out of the driver; an iteration reads the operator of    *)
(* its own index only, which is larger than the index of every operator    *)
(* removed before; the eligibility flags are those of the original         *)
(* sequence, computed before the loop, and stay what they were while the   *)
(* driver changes.                                                         *)
(***************************************************************************)
C31_NoUseAfterRemoval ==
  [][/\ compileState'.reads \cap compileState.removed = {}
     /\ (/\ compileState.pc \in {"fromVelox", "replace"}
         /\ compileState.operatorIndex < Len(compileState.operators)) =>
          /\ compileState'.reads \subseteq {compileState.operators[compileState.operatorIndex + 1]}
          /\ \A op \in compileState.removed : op.operatorId < compileState.operatorIndex
          /\ compileState'.operators = compileState.operators
          /\ compileState'.isSupportedGpuOperators = compileState.isSupportedGpuOperators
          /\ compileState.isSupportedGpuOperators = ClassificationOfOriginal]_vars

\* compile has removed the second operator of its snapshot and is in the
\* iteration of the third, which it has read.
C31_Witness ==
  /\ compileState.pc = "replace"
  /\ compileState.operatorIndex = 2
  /\ compileState.removed = {compileState.operators[2]}
  /\ compileState.reads = {compileState.operators[3]}
  /\ \A k \in DOMAIN driver.operators : driver.operators[k] # compileState.operators[2]

\* In the original pipeline the source operators stand first only and the
\* operators that end a pipeline stand last only.
SourcesFirstSinksLast ==
  \A i \in 1..Len(Original) :
    /\ Original[i].kind \in {"TableScan", "Values", "LocalExchange"} => i = 1
    /\ Original[i].kind \in {"LocalPartition", "HashBuild", "CallbackSink"} =>
         i = Len(Original)

\* The operator of the compiled pipeline hands on data that resides on the
\* accelerator: an accelerator operator, a from-velox adapter, a kept
\* supported table scan or a kept local exchange.
HandsOnGpuData(op) ==
  \/ op.kind \in {"CudfFromVelox", "CudfOrderBy", "CudfHashAggregation", "CudfFilterProject",
                  "CudfLimit", "CudfHashJoinProbe", "CudfAssignUniqueId", "LocalExchange"}
  \/ op.kind = "TableScan" /\ op.node.connector = "CudfHiveConnector"

\* The operator of the compiled pipeline takes data that resides on the
\* accelerator: an accelerator operator, a to-velox adapter or a kept
\* round-robin local partition.
TakesGpuData(op) ==
  \/ op.kind \in {"CudfToVelox", "CudfOrderBy", "CudfHashAggregation", "CudfFilterProject",
                  "CudfLimit", "CudfHashJoinProbe", "CudfHashJoinBuild",
                  "CudfLocalPartition", "CudfAssignUniqueId"}
  \/ op.kind = "LocalPartition" /\ op.node.partitioning = "roundRobin"

(***************************************************************************)
(* C32: after compile of a pipeline whose sources stand first only and     *)
(* whose sinks stand last only, every two adjacent operators agree on the  *)
(* residency of the data: what takes accelerator data follows what hands   *)
(* it on, what takes host data follows a host operator or a to-velox       *)
(* adapter, and no adapter stands next to an adapter.                      *)
(***************************************************************************)
C32_ResidencyConsistency ==
  (compileState.pc = "done" /\ SourcesFirstSinksLast) =>
    \A k \in 1..(Len(driver.operators) - 1) :
      /\ TakesGpuData(driver.operators[k + 1]) <=> HandsOnGpuData(driver.operators[k])
      /\ ~(IsAdapter(driver.operators[k]) /\ IsAdapter(driver.operators[k + 1]))

\* compile has returned on a supported table scan, a host operator and an
\* accelerator operator: both adapters stand around the host operator.
C32_Witness ==
  /\ compileState.pc = "done"
  /\ SourcesFirstSinksLast
  /\ Len(Original) = 3
  /\ Original[2].kind = "TopN"
  /\ Len(driver.operators) >= 5
  /\ driver.operators[1].kind = "TableScan"
  /\ driver.operators[2].kind = "CudfToVelox"
  /\ driver.operators[3].kind = "TopN"
  /\ driver.operators[4].kind = "CudfFromVelox"
  /\ driver.operators[5].kind = "CudfOrderBy"

(***************************************************************************)
(* The two pipelines of one hash join: after compile has returned on the   *)
(* pipeline of one side, the driver of the other side, which holds the     *)
(* operator of the other kind on the same plan node, is compiled by the    *)
(* same adapter.  compile works on its own driver and CompileState only.   *)
(***************************************************************************)
JoinKinds == {"HashBuild", "HashProbe"}

\* The kind of the operator on the other side of the join.
OtherSide(kind) == IF kind = "HashBuild" THEN "HashProbe" ELSE "HashBuild"

\* The adapter is called on the driver of the other side of a join of the
\* pipeline compiled before.
CompileOtherSide ==
  /\ compileState.pc = "done"
  /\ call = NoCall
  /\ \E i \in DOMAIN compileState.operators, source \in SourceOperators,
        outputDriver \in BOOLEAN :
       /\ compileState.operators[i].kind \in JoinKinds
       /\ driver' = [operators |->
                       Pipeline(<<source,
                                  [kind |-> OtherSide(compileState.operators[i].kind),
                                   node |-> compileState.operators[i].node]>>),
                     outputDriver |-> outputDriver]
       /\ call' = [op |-> "compile", operators |-> driver.operators,
                   ret |-> compileState.ret, original |-> compileState.operators,
                   join |-> i]
  /\ compileState' = [pc |-> "begin", allowCpuFallback |-> compileState.allowCpuFallback,
                      operators |-> <<>>, isSupportedGpuOperators |-> <<>>,
                      operatorIndex |-> 0, operatorsOffset |-> 0,
                      replacementsMade |-> FALSE, ret |-> FALSE, error |-> "",
                      warnings |-> 0, reads |-> {}, removed |-> {}]
  /\ UNCHANGED <<functionRegistry, functionCalls, evaluatorRegistry, registered, expr,
                 isCudfRegistered, mr_, adapters, translators,
                 builder, vectors, threads>>

\* The pipelines that hold a side of a hash join.
InitJoinPipelines ==
  /\ InitCompile
  /\ \E i \in DOMAIN driver.operators : driver.operators[i].kind \in JoinKinds

NextJoinPipelines ==
  \/ CompileBegin
  \/ CompileFromVelox
  \/ CompileReplace
  \/ CompileReturn
  \/ CompileOtherSide

SpecJoinPipelines == InitJoinPipelines /\ [][NextJoinPipelines]_vars

\* The operators of a compiled driver that are not boundary adapters.
CoreOf(operators) == SelectSeq(operators, LAMBDA o : ~IsAdapter(o))

\* The join operator of the pipeline compiled first was replaced by its
\* accelerator counterpart.
FirstSideReplaced ==
  CoreOf(call.operators)[call.join].kind = Counterpart(call.original[call.join].kind)

\* The join operator of the pipeline compiled second was replaced by its
\* accelerator counterpart.
OtherSideReplaced == Core[2].kind = Counterpart(Original[2].kind)

\* compile has dealt with the join operator of the second pipeline.
OtherSideProcessed ==
  /\ call.op = "compile"
  /\ compileState.pc \in {"fromVelox", "replace", "done"}
  /\ Processed(2)

C33_WitnessOfKept ==
  /\ OtherSideProcessed
  /\ compileState.pc = "done"
  /\ Original[2].node = HashJoinNode("kAnti", TRUE, TRUE)
  /\ ~FirstSideReplaced
  /\ ~OtherSideReplaced

\* The operators compile keeps on purpose although they are eligible: a
\* round-robin LocalPartition, a supported TableScan and a LocalExchange.
KeptOnPurpose(op) ==
  \/ isAnyOf({"LocalPartition"}, op) /\ ~shouldReplace(op.node)
  \/ isAnyOf({"TableScan"}, op) /\ isTableScanSupported(op)
  \/ isAnyOf({"LocalExchange"}, op)

\* The operator of the iteration compile is in.
OperatorOfIteration == compileState.operators[compileState.operatorIndex + 1]

(***************************************************************************)
(* C34: with allowCpuFallback false, an operator that is kept on purpose   *)
(* (a round-robin LocalPartition, a supported TableScan or a LocalExchange,*)
(* also with a to-velox adapter inserted after it) never raises            *)
(* 'Replacement with cuDF operator failed'.                                *)
(***************************************************************************)
C34_KeptOnPurposeNeverFails ==
  compileState.pc = "failed" => ~KeptOnPurpose(OperatorOfIteration)

\* compile failed at a supported TableScan that is followed by a host
\* operator, hence by a to-velox adapter.
C34_Witness ==
  /\ compileState.pc = "failed"
  /\ ~compileState.allowCpuFallback
  /\ compileState.operatorIndex = 0
  /\ OperatorOfIteration.kind = "TableScan"
  /\ isTableScanSupported(OperatorOfIteration)
  /\ Len(compileState.operators) > 1
  /\ ~compileState.isSupportedGpuOperators[2]

\* compile failed at a round-robin LocalPartition.
C34_WitnessOfLocalPartition ==
  /\ compileState.pc = "failed"
  /\ OperatorOfIteration.kind = "LocalPartition"
  /\ ~shouldReplace(OperatorOfIteration.node)

\* compile failed at a LocalExchange.
C34_WitnessOfLocalExchange ==
  /\ compileState.pc = "failed"
  /\ OperatorOfIteration.kind = "LocalExchange"

\* The condition of the fallback check in the iteration of the original
\* operator i.
ConditionOf(i) ==
  LET oper == compileState.operators[i]
      r == Replacement(oper, evaluatorRegistry, functionRegistry)
      replaceOp ==
        r.replaceOp \o
          (IF producesGpuOutput(oper, evaluatorRegistry, functionRegistry)
              /\ \/ nextOperatorIsNotGpu(i - 1, compileState.isSupportedGpuOperators)
                 \/ isLastOperatorOfTask(i - 1, Len(compileState.operators),
                                         driver.outputDriver)
             THEN <<CudfOperator("CudfToVelox", oper.operatorId, oper.node)>>
             ELSE <<>>)
  IN  FallbackCondition(oper, replaceOp, r.keepOperator)

(***************************************************************************)
(* C38: compile fails at the first operator, in pipeline order, whose      *)
(* fallback check fails, and only with allowCpuFallback false; at the throw*)
(* that operator and the operators after it stand in the driver as they    *)
(* were, the earlier operators that had a replacement are replaced, and a  *)
(* from-velox adapter inserted before the failing operator is in the       *)
(* driver.                                                                 *)
(***************************************************************************)
C38_FailureAtFirstFailingOperator ==
  compileState.pc = "failed" =>
    /\ ~compileState.allowCpuFallback
    /\ ~ConditionOf(compileState.operatorIndex + 1)
    /\ \A j \in 1..compileState.operatorIndex : ConditionOf(j)
    /\ OperatorsFrom(replacingOperatorIndex) = OriginalFrom(compileState.operatorIndex)
    /\ \A j \in 1..compileState.operatorIndex :
         Replacement(Original[j], evaluatorRegistry, functionRegistry).replaceOp # <<>> =>
           Core[j] = [Original[j] EXCEPT !.kind = Counterpart(@)]
    /\ (/\ compileState.operatorIndex >= 1
        /\ ~Eligible(compileState.operatorIndex)
        /\ OperatorOfIteration.kind = "LocalPartition") =>
         /\ replacingOperatorIndex >= 1
         /\ driver.operators[replacingOperatorIndex].kind = "CudfFromVelox"
         /\ driver.operators[replacingOperatorIndex].operatorId =
              OperatorOfIteration.operatorId

\* compile failed at a round-robin LocalPartition, the third operator: the
\* second operator is replaced and a from-velox adapter stands before it,
\* and a from-velox adapter stands before the LocalPartition.
C38_Witness ==
  /\ compileState.pc = "failed"
  /\ compileState.operatorIndex = 2
  /\ OperatorOfIteration.kind = "LocalPartition"
  /\ Original[1].kind = "Values"
  /\ Original[2].kind = "OrderBy"
  /\ driver.operators[2].kind = "CudfFromVelox"
  /\ driver.operators[3].kind = "CudfOrderBy"
  /\ Len(driver.operators) = 4
  /\ driver.operators[4] = Original[3]

\* compile failed with a from-velox adapter inserted in the failing
\* iteration.
C38_WitnessOfFromVelox ==
  /\ compileState.pc = "failed"
  /\ compileState.operatorIndex = 1
  /\ Original[1].kind = "Values"
  /\ OperatorOfIteration.kind = "LocalPartition"
  /\ driver.operators[2].kind = "CudfFromVelox"
  /\ driver.operators[3] = Original[2]

(***************************************************************************)
(* CudfDriverAdapter::operator(): the adapter the driver factory calls on  *)
(* a new driver.  allowCpuFallback_ is the allowCpuFallback of the         *)
(* CompileState; cudfEnabled is the accelerator-enabled flag of the query. *)
(***************************************************************************)
\* A wrong test: the adapter never returns early.
ReturnsWithoutCompileNever(cudfEnabled, allowCpuFallback_) == FALSE

\* if (!queryConfig().get<bool>(kCudfEnabled, ...) && allowCpuFallback_)
\*   return false;
ReturnsWithoutCompile(cudfEnabled, allowCpuFallback_) ==
  ~cudfEnabled /\ allowCpuFallback_

\* The call of the adapter up to the construction of the CompileState.
DriverAdapterCall ==
  /\ call = NoCall
  /\ compileState.pc = "begin"
  /\ \E cudfEnabled \in BOOLEAN :
       call' = [op |-> "CudfDriverAdapter", cudfEnabled |-> cudfEnabled,
                operators |-> driver.operators,
                pc |-> IF ReturnsWithoutCompile(cudfEnabled, compileState.allowCpuFallback)
                         THEN "returned" ELSE "compile",
                ret |-> FALSE]
  /\ UNCHANGED <<functionRegistry, functionCalls, evaluatorRegistry, registered, expr,
                 driver, compileState, isCudfRegistered, mr_, adapters, translators,
                 builder, vectors, threads>>

\* The adapter is in state.compile(allowCpuFallback_).
InDriverAdapterCompile == call # NoCall /\ call.pc = "compile"

\* return res; or the exception of compile leaves the adapter.
DriverAdapterReturn ==
  /\ InDriverAdapterCompile
  /\ compileState.pc \in {"done", "failed"}
  /\ call' = [call EXCEPT !.pc = IF compileState.pc = "done" THEN "returned" ELSE "thrown",
                          !.ret = compileState.ret]
  /\ UNCHANGED <<functionRegistry, functionCalls, evaluatorRegistry, registered, expr,
                 driver, compileState, isCudfRegistered, mr_, adapters, translators,
                 builder, vectors, threads>>

NextDriverAdapter ==
  \/ DriverAdapterCall
  \/ InDriverAdapterCompile /\ CompileBegin
  \/ InDriverAdapterCompile /\ CompileFromVelox
  \/ InDriverAdapterCompile /\ CompileReplace
  \/ InDriverAdapterCompile /\ CompileReturn
  \/ DriverAdapterReturn

SpecDriverAdapter == InitCompile /\ [][NextDriverAdapter]_vars

\* The adapter has returned false, compile has not run and the driver holds
\* the operators it was called with.
ReturnedWithoutCompile ==
  /\ call.pc = "returned"
  /\ ~call.ret
  /\ compileState.pc = "begin"
  /\ driver.operators = call.operators

(***************************************************************************)
(* C35 as stated: when the accelerator-enabled flag of the query is false  *)
(* the adapter returns false without running compile and leaves the        *)
(* pipeline untouched, whatever allowCpuFallback is.                       *)
(***************************************************************************)
C35_DisabledNeverCompiles ==
  (call # NoCall /\ ~call.cudfEnabled) => ReturnedWithoutCompile

(***************************************************************************)
(* C35 amended: when the accelerator-enabled flag of the query is false    *)
(* and allowCpuFallback is true, the adapter returns false without running *)
(* compile and leaves the pipeline untouched.                              *)
(***************************************************************************)
C35_DisabledWithFallbackNeverCompiles ==
  (call # NoCall /\ ~call.cudfEnabled /\ compileState.allowCpuFallback) =>
    ReturnedWithoutCompile

\* The adapter returned false on a disabled query whose pipeline holds an
\* operator compile would have replaced.
C35_Witness ==
  /\ call # NoCall
  /\ ~call.cudfEnabled
  /\ compileState.allowCpuFallback
  /\ ReturnedWithoutCompile
  /\ Len(driver.operators) = 2
  /\ driver.operators[2].kind = "OrderBy"

\* With allowCpuFallback false the adapter compiled the pipeline of a
\* disabled query and replaced an operator.
C35_WitnessOfCompile ==
  /\ call # NoCall
  /\ ~call.cudfEnabled
  /\ ~compileState.allowCpuFallback
  /\ call.pc = "returned"
  /\ call.ret
  /\ driver.operators # call.operators

(***************************************************************************)
(* The two registries under setup, teardown, registrations by users and    *)
(* the calls that consult them.                                            *)
(***************************************************************************)
\* registerBuiltinFunctions(prefix) called on its own.
CallRegisterBuiltinFunctions ==
  /\ \E prefix \in {"", "cudf_"} :
       /\ functionRegistry' = registerBuiltinFunctions(functionRegistry, prefix)
       /\ call' = [op |-> "registerBuiltinFunctions", prefix |-> prefix,
                   before |-> functionRegistry]
  /\ UNCHANGED <<functionCalls, evaluatorRegistry, registered, expr, driver, compileState,
                 isCudfRegistered, mr_, adapters, translators,
                 builder, vectors, threads>>

\* A user registers a strategy under the name of a built-in one.
RegisterUserEvaluator ==
  RegisterEvaluatorFrom(EvaluatorNames, {kFunctionPriority + 50},
                        {"acceptAll"}, {"acceptCalls"}, {"createB"})

\* Number of registerCudfFunction calls of users.
MaxUserCalls == 1

\* Number of registerCudf calls that find cuDF unregistered.
MaxSetups == 1

\* The expressions canBeEvaluatedByCudf and createCudfExpression are called
\* on: a call of year, of one node.
RegistryExprs ==
  {e \in TypedExprs \cup CompiledExprs :
     /\ Len(e.tree.label) = 1
     /\ e.tree.label[1].name = "year"
     /\ e.tree.label[1].kind \in {"kCall", "Expr"}}

\* No registration has been made; an expression of one node is at hand.
InitRegistries ==
  /\ functionRegistry = EmptyMap
  /\ functionCalls = <<>>
  /\ evaluatorRegistry = EmptyMap
  /\ registered = FALSE
  /\ call = NoCall
  /\ expr \in RegistryExprs
  /\ driver = NoDriver
  /\ compileState = NoCompile
  /\ NothingRegistered
  /\ NoBuilderNoThreads

NextRegistries ==
  \/ Len(functionCalls) < MaxUserCalls /\ CallRegisterCudfFunction
  \/ RegisterUserEvaluator
  \/ translators < MaxSetups /\ CallRegisterCudf
  \/ CallUnregisterCudf
  \/ CallRegisterBuiltinFunctions
  \/ CallCanBeEvaluatedByCudf
  \/ CallCreateCudfExpression

SpecRegistries == InitRegistries /\ [][NextRegistries]_vars

\* The step is a registerCudfFunction call on `name` with overwrite = true.
OverwritesFunction(name) ==
  \E k \in (Len(functionCalls) + 1)..Len(functionCalls') :
    functionCalls'[k].name = name /\ functionCalls'[k].overwrite

\* The step is a registerCudfExpressionEvaluator call on `name` with
\* overwrite = true.
OverwritesEvaluator(name) ==
  /\ call'.op = "registerCudfExpressionEvaluator"
  /\ call'.name = name
  /\ call'.overwrite

(***************************************************************************)
(* C36: no step of setup, teardown, built-in registration, feasibility     *)
(* check or expression creation removes a name from the function registry  *)
(* or the evaluator registry, an entry changes only in a registration made *)
(* with overwrite = true on its name, and unregisterCudf leaves both       *)
(* registries as they are.                                                 *)
(***************************************************************************)
C36_EntriesStayUnlessOverwritten ==
  [][/\ \A name \in DOMAIN functionRegistry :
          /\ name \in DOMAIN functionRegistry'
          /\ functionRegistry'[name] # functionRegistry[name] => OverwritesFunction(name)
     /\ \A name \in DOMAIN evaluatorRegistry :
          /\ name \in DOMAIN evaluatorRegistry'
          /\ evaluatorRegistry'[name] # evaluatorRegistry[name] => OverwritesEvaluator(name)
     /\ CallUnregisterCudf =>
          /\ functionRegistry' = functionRegistry
          /\ evaluatorRegistry' = evaluatorRegistry]_vars

\* A user registered year, then registerCudf registered the built-in
\* functions: year is still the user's, the other built-ins are there.
C36_Witness ==
  /\ Len(functionCalls) = 1
  /\ functionCalls[1].name = "year"
  /\ functionCalls[1].factory = "factoryA"
  /\ functionCalls[1].before = EmptyMap
  /\ call # NoCall
  /\ call.op = "registerCudf"
  /\ isCudfRegistered
  /\ "substr" \in DOMAIN functionRegistry
  /\ functionRegistry["year"] = "factoryA"

\* A user registered the strategy "function", then the built-in strategy
\* was registered by a feasibility check: the user's entry is still there.
C36_WitnessOfStrategy ==
  /\ registered
  /\ call # NoCall
  /\ call.op = "canBeEvaluatedByCudf"
  /\ "function" \in DOMAIN evaluatorRegistry
  /\ evaluatorRegistry["function"].create = "createB"

\* unregisterCudf was called with both registries filled.
C36_WitnessOfUnregister ==
  /\ call # NoCall
  /\ call.op = "unregisterCudf"
  /\ "year" \in DOMAIN functionRegistry
  /\ "ast" \in DOMAIN evaluatorRegistry

(***************************************************************************)
(* Checked arithmetic (CheckedArithmetic.h) on a signed integer type T of  *)
(* Width bits.                                                             *)
(***************************************************************************)
\* The number of bits of T.
Width == 4

\* std::numeric_limits<T>::min() and max().
MinT == -(2 ^ (Width - 1))

MaxT == 2 ^ (Width - 1) - 1

\* The values of T.
T == MinT..MaxT

\* The value of T an integer is stored as: its Width low bits, in two's
\* complement.
StoredAsT(x) == ((x - MinT) % (2 ^ Width)) + MinT

\* A wrong overflow flag: that of the unsigned addition idiom result < a.
OverflowOfUnsigned(exact) == StoredAsT(exact) < 0

\* The flag __builtin_add_overflow, __builtin_sub_overflow and
\* __builtin_mul_overflow return for the infinite-precision result `exact`:
\* whether the stored result differs from it.
Overflow(exact) == StoredAsT(exact) # exact

\* What a checked function hands back: a value, or the arithmetic error it
\* throws.
Returns(value) == [error |-> "", value |-> value]

Throws(message) == [error |-> message, value |-> 0]

checkedPlus(a, b) ==
  IF Overflow(a + b) THEN Throws("integer overflow: +") ELSE Returns(StoredAsT(a + b))

checkedMinus(a, b) ==
  IF Overflow(a - b) THEN Throws("integer overflow: -") ELSE Returns(StoredAsT(a - b))

checkedMultiply(a, b) ==
  IF Overflow(a * b) THEN Throws("integer overflow: *") ELSE Returns(StoredAsT(a * b))

\* The absolute value of an integer.
Abs(x) == IF x < 0 THEN -x ELSE x

\* a / b of C++, b # 0: the quotient truncated towards zero.
Quotient(a, b) ==
  IF (a < 0) = (b < 0) THEN Abs(a) \div Abs(b) ELSE -(Abs(a) \div Abs(b))

\* a % b of C++, b # 0: the remainder has the sign of a.
Remainder(a, b) == IF a < 0 THEN -(Abs(a) % Abs(b)) ELSE Abs(a) % Abs(b)

checkedDivide(a, b) ==
  IF b = 0
    THEN Throws("division by zero")
    ELSE IF a = MinT /\ b = -1
      THEN Throws("integer overflow: /")
      ELSE Returns(StoredAsT(Quotient(a, b)))

checkedModulus(a, b) ==
  IF b = 0
    THEN Throws("Cannot divide by 0")
    ELSE IF b = -1 THEN Returns(0) ELSE Returns(StoredAsT(Remainder(a, b)))

checkedNegate(a) ==
  IF a = MinT THEN Throws("Cannot negate minimum value") ELSE Returns(StoredAsT(-a))

\* The record of a call of a checked function.
ArithmeticCall(op, a, b, ret) == [op |-> op, a |-> a, b |-> b, ret |-> ret]

\* Nothing but the record of the last call changes.
OnlyCallChanges ==
  UNCHANGED <<functionRegistry, functionCalls, evaluatorRegistry, registered, expr, driver,
              compileState, isCudfRegistered, mr_, adapters, translators,
              builder, vectors, threads>>

CallCheckedPlus ==
  /\ \E a \in T, b \in T : call' = ArithmeticCall("checkedPlus", a, b, checkedPlus(a, b))
  /\ OnlyCallChanges

CallCheckedMinus ==
  /\ \E a \in T, b \in T : call' = ArithmeticCall("checkedMinus", a, b, checkedMinus(a, b))
  /\ OnlyCallChanges

CallCheckedMultiply ==
  /\ \E a \in T, b \in T :
       call' = ArithmeticCall("checkedMultiply", a, b, checkedMultiply(a, b))
  /\ OnlyCallChanges

CallCheckedDivide ==
  /\ \E a \in T, b \in T : call' = ArithmeticCall("checkedDivide", a, b, checkedDivide(a, b))
  /\ OnlyCallChanges

CallCheckedModulus ==
  /\ \E a \in T, b \in T :
       call' = ArithmeticCall("checkedModulus", a, b, checkedModulus(a, b))
  /\ OnlyCallChanges

CallCheckedNegate ==
  /\ \E a \in T : call' = ArithmeticCall("checkedNegate", a, 0, checkedNegate(a))
  /\ OnlyCallChanges

NextArithmetic ==
  \/ CallCheckedPlus
  \/ CallCheckedMinus
  \/ CallCheckedMultiply
  \/ CallCheckedDivide
  \/ CallCheckedModulus
  \/ CallCheckedNegate

SpecArithmetic == InitFunctionRegistry /\ [][NextArithmetic]_vars

\* The call returned the value v.
Returned(v) == call.ret.error = "" /\ call.ret.value = v

\* The call raised an arithmetic error.
Raised == call.ret.error # ""

\* The call returned the exact result if T can represent it and raised an
\* error if not.
ExactOrRaised(exact) == IF exact \in T THEN Returned(exact) ELSE Raised

\* r is the remainder of the division of a by b that truncates towards
\* zero, with the quotient q.
IsTruncatedDivision(a, b, q, r) ==
  /\ a = q * b + r
  /\ Abs(r) < Abs(b)
  /\ r = 0 \/ (r < 0) = (a < 0)

(***************************************************************************)
(* C39: on a signed type of Width bits checkedPlus, checkedMinus and       *)
(* checkedMultiply return the exact result when the type can represent it  *)
(* and raise an arithmetic error exactly when it cannot; checkedDivide     *)
(* raises for b = 0 and for min / -1 and otherwise returns the quotient    *)
(* a / b; checkedModulus raises for b = 0, returns 0 for b = -1 and        *)
(* otherwise the remainder a % b; checkedNegate raises exactly for min.    *)
(***************************************************************************)
C39_CheckedArithmetic ==
  call # NoCall =>
    LET a == call.a
        b == call.b
    IN  /\ call.op = "checkedPlus" => ExactOrRaised(a + b)
        /\ call.op = "checkedMinus" => ExactOrRaised(a - b)
        /\ call.op = "checkedMultiply" => ExactOrRaised(a * b)
        /\ call.op = "checkedDivide" =>
             IF b = 0 \/ (a = MinT /\ b = -1)
               THEN Raised
               ELSE /\ ~Raised
                    /\ \E r \in T : IsTruncatedDivision(a, b, call.ret.value, r)
        /\ call.op = "checkedModulus" =>
             IF b = 0
               THEN Raised
               ELSE IF b = -1
                 THEN Returned(0)
                 ELSE /\ ~Raised
                      /\ \E q \in T : IsTruncatedDivision(a, b, q, call.ret.value)
        /\ call.op = "checkedNegate" => IF a = MinT THEN Raised ELSE Returned(-a)

\* checkedPlus raised on max + 1.
C39_Witness ==
  /\ call # NoCall
  /\ call.op = "checkedPlus"
  /\ call.a = MaxT
  /\ call.b = 1
  /\ Raised

\* checkedMultiply returned min for min * 1, checkedDivide raised on
\* min / -1, checkedModulus returned -1 for -7 % 3.
C39_WitnessOfMultiply ==
  call = ArithmeticCall("checkedMultiply", MinT, 1, Returns(MinT))

C39_WitnessOfDivide ==
  /\ call # NoCall
  /\ call.op = "checkedDivide"
  /\ call.a = MinT
  /\ call.b = -1
  /\ Raised

C39_WitnessOfModulus ==
  call = ArithmeticCall("checkedModulus", -7, 3, Returns(-1))

(***************************************************************************)
(* C37: the eval of a function that was constructed without error reads    *)
(* inputColumns only at indexes below the number of compiled children: no  *)
(* eval of a compiled expression makes an undefined read.                  *)
(***************************************************************************)
C37_EvalReadsWithinInputColumns ==
  (call.op = "eval" /\ expr.type = "Compiled") => "undefined" \notin DOMAIN call.eval.ret

\* divide of two constants was compiled without error and without a
\* compiled child, and its eval read inputColumns[0] and went on with what
\* it found there.
C37_Witness ==
  /\ expr.type = "Compiled"
  /\ expr.tree.label[1].name = "divide"
  /\ BinaryOfTwoLiterals
  /\ expr.node.error = ""
  /\ expr.node.subexpressions = <<>>
  /\ call.op = "eval"
  /\ call.eval.ret = [undefined |-> "garbage 1"]
====
